---------------------------- MODULE Spec2Model ----------------------------
(***************************************************************************)
(* 2048 clone: the move-resolution engine in its two designs (tile         *)
(* identity, client/src/lib/game2048.ts as imported by Game2048.tsx, and   *)
(* grid indexed) and the session controllers built on them.                *)
(*                                                                         *)
(*   SpecEngine  the pure engine functions applied to bounded input boards *)
(*   Spec        the session controllers (deferred spawn, Game2048.tsx,    *)
(*               and synchronous spawn), one of them per behaviour; the    *)
(*               deferred session also carries the synchronous session     *)
(*               under the same commands (shadow)                          *)
(***************************************************************************)
EXTENDS Integers, Sequences, FiniteSets, TLC

VARIABLES
    \* ---- engine harness (SpecEngine) ----
    pc,           \* "input" | "moved" | "again"
    inTiles,      \* the input Tile[] handed to the tile-identity move
    inGrid,       \* the same board as a Grid handed to the grid-indexed move
    direction,    \* the Direction of the call(s)
    tileRes,      \* MoveResult of the tile-identity move
    gridRes,      \* result of the grid-indexed move
    tileRes2,     \* MoveResult of move(tileRes.tiles, direction)
    gridRes2,     \* result of move(gridRes.grid, direction)
    \* ---- session controllers (Spec) ----
    variant,      \* "deferred" (Game2048.tsx, tile identity) | "sync" (grid indexed) | "none"
    gameState,    \* deferred controller: the GameState held by useState
    isAnimating,  \* deferred controller: isAnimatingRef.current
    spawnTimeout, \* deferred controller: spawnTimeoutRef.current (NoTimer = null)
    moveVersion,  \* deferred controller: moveVersionRef.current
    timers,       \* deferred controller: the scheduled spawn callbacks, by captured version
    nextTileId,   \* tile-identity engine: the module-level id allocator
    syncState,    \* synchronous controller: the GameState held by useState
    savedBest,    \* localStorage['2048_best_score']
    rng,          \* Math.random: the stream of values it returns and the position in it
    lastOp,       \* history: the last command delivered and whether it took effect
    log,          \* history: the moves, spawns, undos and new games that took effect, in order
    cancelled,    \* deferred controller: callbacks whose timer was cleared, by captured version
    wins,         \* history: how often won went from false to true in the current game
    shadow        \* history: the synchronous controller's GameState under the same commands

engineVars == <<pc, inTiles, inGrid, direction, tileRes, gridRes, tileRes2, gridRes2>>
sessionVars == <<variant, gameState, isAnimating, spawnTimeout, moveVersion, timers,
                 nextTileId, syncState, savedBest, rng, lastOp, log, cancelled, wins, shadow>>

vars == <<engineVars, sessionVars>>

-----------------------------------------------------------------------------
(* Bounds of the model *)

\* tile values on the input boards are 2^1 .. 2^MaxExp
MaxExp == 3
\* the sparse input boards hold at most MaxTiles tiles, placed anywhere
MaxTiles == 2
\* the dense input boards differ from a full checkerboard in at most MaxFlips cells
MaxFlips == 1
\* the deferred controller stops accepting commands that advance moveVersionRef at MaxVersion
MaxVersion == 3
\* the synchronous controller stops accepting commands after MaxSteps of them took effect
MaxSteps == 3

-----------------------------------------------------------------------------
(* Data model *)

Idx == 0..3
Directions == {"up", "down", "left", "right"}

RECURSIVE Pow2(_)
Pow2(n) == IF n = 0 THEN 1 ELSE 2 * Pow2(n - 1)

\* null, as a (Tile | null) grid entry and as a (number | null) grid entry
NoTile == [id |-> 0, value |-> 0, row |-> 0, col |-> 0, isNew |-> FALSE, isMerged |-> FALSE]
Null == 0

\* the array [a, b, c, d], indexed 0..3
array4(a, b, c, d) == (0 :> a) @@ (1 :> b) @@ (2 :> c) @@ (3 :> d)

\* [...r]: a copy of one row
copyRow(row) == array4(row[0], row[1], row[2], row[3])

\* grid.map(r => [...r]): a copy of the grid
copyGrid(grid) == array4(copyRow(grid[0]), copyRow(grid[1]), copyRow(grid[2]), copyRow(grid[3]))

\* Array(4).fill(null).map(() => Array(4).fill(x))
fill4x4(x) == copyGrid([r \in Idx |-> [c \in Idx |-> x]])

\* the 16 cells in row-major order, the order of the nested for loops and of flat()
RowMajor == [i \in 1..16 |-> [row |-> (i - 1) \div 4, col |-> (i - 1) % 4]]

\* Array.prototype.filter: the elements of cells, from the i-th on, whose keep flag is set
RECURSIVE filterFrom(_, _, _)
filterFrom(cells, keep, i) ==
    IF i > Len(cells) THEN <<>>
    ELSE (IF keep[i] THEN <<cells[i]>> ELSE <<>>) \o filterFrom(cells, keep, i + 1)

SelectCells(cells, Keep(_)) == filterFrom(cells, [i \in 1..Len(cells) |-> Keep(cells[i])], 1)

-----------------------------------------------------------------------------
(* Tile-identity engine *)

\* a createTile that numbers every tile 1
createTileUnnumbered(nid, value, row, col, isNew) ==
    [id |-> 1, value |-> value, row |-> row, col |-> col, isNew |-> isNew, isMerged |-> FALSE]

\* createTile: the tile made with the allocator at nid; the caller advances nid
createTile(nid, value, row, col, isNew) ==
    [id |-> nid, value |-> value, row |-> row, col |-> col, isNew |-> isNew, isMerged |-> FALSE]

\* tiles.forEach(t => grid[t.row][t.col] = f(t)): later tiles overwrite earlier ones
RECURSIVE placeFrom(_, _, _, _)
placeFrom(grid, tiles, entries, i) ==
    IF i > Len(tiles) THEN grid
    ELSE placeFrom([grid EXCEPT ![tiles[i].row][tiles[i].col] = entries[i]], tiles, entries, i + 1)

placeAll(grid, tiles, F(_)) == placeFrom(grid, tiles, [i \in 1..Len(tiles) |-> F(tiles[i])], 1)

\* a getEmptyCells that forgets the occupied set: every cell counts as empty
getEmptyCellsIgnoringTiles(tiles) == RowMajor

getEmptyCells(tiles) ==
    LET occupied == {<<tiles[i].row, tiles[i].col>> : i \in 1..Len(tiles)}
        Free(cell) == <<cell.row, cell.col>> \notin occupied
    IN  SelectCells(RowMajor, Free)

getVector(d) ==
    CASE d = "up"    -> [row |-> -1, col |-> 0]
      [] d = "down"  -> [row |-> 1, col |-> 0]
      [] d = "left"  -> [row |-> 0, col |-> -1]
      [] d = "right" -> [row |-> 0, col |-> 1]

\* a traversal that never reverses: down and right start from the wrong edge
getTraversalOrderUnreversed(d) == [rows |-> <<0, 1, 2, 3>>, cols |-> <<0, 1, 2, 3>>]

getTraversalOrder(d) ==
    [rows |-> IF d = "down" THEN <<3, 2, 1, 0>> ELSE <<0, 1, 2, 3>>,
     cols |-> IF d = "right" THEN <<3, 2, 1, 0>> ELSE <<0, 1, 2, 3>>]

\* a merge test without the merged[][] guard: a merged cell may merge again
mergeTargetChained(nextTile, tile, merged, nextRow, nextCol) == nextTile.value = tile.value

\* the else-if of the slide loop: the next cell's tile can absorb this tile
mergeTarget(nextTile, tile, merged, nextRow, nextCol) ==
    nextTile.value = tile.value /\ ~merged[nextRow][nextCol]

\* a slide loop that stops after one step
slideOneStep(grid, merged, tile, newRow, newCol, vector) ==
    LET nextRow == newRow + vector.row
        nextCol == newCol + vector.col
    IN  IF nextRow < 0 \/ nextRow > 3 \/ nextCol < 0 \/ nextCol > 3
        THEN [row |-> newRow, col |-> newCol]
        ELSE LET nextTile == grid[nextRow][nextCol]
             IN  IF nextTile = NoTile \/ mergeTargetChained(nextTile, tile, merged, nextRow, nextCol)
                 THEN [row |-> nextRow, col |-> nextCol]
                 ELSE [row |-> newRow, col |-> newCol]

\* the while (true) loop: the cell where the tile from (row, col) comes to rest
RECURSIVE slide(_, _, _, _, _, _)
slide(grid, merged, tile, newRow, newCol, vector) ==
    LET nextRow == newRow + vector.row
        nextCol == newCol + vector.col
    IN  IF nextRow < 0 \/ nextRow > 3 \/ nextCol < 0 \/ nextCol > 3
        THEN [row |-> newRow, col |-> newCol]
        ELSE LET nextTile == grid[nextRow][nextCol]
             IN  IF nextTile = NoTile
                 THEN slide(grid, merged, tile, nextRow, nextCol, vector)
                 ELSE IF mergeTarget(nextTile, tile, merged, nextRow, nextCol)
                      THEN [row |-> nextRow, col |-> nextCol]
                      ELSE [row |-> newRow, col |-> newCol]

\* a loop body that leaves the tile on the cell it came from
moveCellLeavingSource(st, row, col, vector) ==
    LET tile == st.grid[row][col]
    IN  IF tile = NoTile THEN st
        ELSE
        LET dest   == slide(st.grid, st.merged, tile, row, col, vector)
            newRow == dest.row
            newCol == dest.col
        IN  IF newRow = row /\ newCol = col THEN st
            ELSE
            LET cleared    == st.grid
                targetTile == cleared[newRow][newCol]
            IN  IF targetTile # NoTile /\ targetTile.value = tile.value
                THEN LET newValue == tile.value * 2
                     IN  [st EXCEPT
                            !.grid = [cleared EXCEPT ![newRow][newCol] =
                                        [createTile(st.nextTileId, newValue, newRow, newCol, FALSE)
                                            EXCEPT !.isMerged = TRUE]],
                            !.nextTileId = st.nextTileId + 1,
                            !.merged = [st.merged EXCEPT ![newRow][newCol] = TRUE],
                            !.totalScore = st.totalScore + newValue,
                            !.anyMoved = TRUE,
                            !.anyMerged = TRUE]
                ELSE [st EXCEPT
                        !.grid = [cleared EXCEPT ![newRow][newCol] =
                                    [tile EXCEPT !.row = newRow, !.col = newCol]],
                        !.anyMoved = TRUE]

\* the body of the two nested for loops, for one cell
moveCell(st, row, col, vector) ==
    LET tile == st.grid[row][col]
    IN  IF tile = NoTile THEN st
        ELSE
        LET dest   == slide(st.grid, st.merged, tile, row, col, vector)
            newRow == dest.row
            newCol == dest.col
        IN  IF newRow = row /\ newCol = col THEN st
            ELSE
            LET cleared    == [st.grid EXCEPT ![row][col] = NoTile]
                targetTile == cleared[newRow][newCol]
            IN  IF targetTile # NoTile /\ targetTile.value = tile.value
                THEN LET newValue == tile.value * 2
                     IN  [st EXCEPT
                            !.grid = [cleared EXCEPT ![newRow][newCol] =
                                        [createTile(st.nextTileId, newValue, newRow, newCol, FALSE)
                                            EXCEPT !.isMerged = TRUE]],
                            !.nextTileId = st.nextTileId + 1,
                            !.merged = [st.merged EXCEPT ![newRow][newCol] = TRUE],
                            !.totalScore = st.totalScore + newValue,
                            !.anyMoved = TRUE,
                            !.anyMerged = TRUE]
                ELSE [st EXCEPT
                        !.grid = [cleared EXCEPT ![newRow][newCol] =
                                    [tile EXCEPT !.row = newRow, !.col = newCol]],
                        !.anyMoved = TRUE]

\* for (const row of rows) for (const col of cols)
RECURSIVE moveLoop(_, _, _, _, _, _)
moveLoop(st, rows, cols, i, j, vector) ==
    IF i > Len(rows) THEN st
    ELSE IF j > Len(cols) THEN moveLoop(st, rows, cols, i + 1, 1, vector)
    ELSE moveLoop(moveCell(st, rows[i], cols[j], vector), rows, cols, i, j + 1, vector)

\* move(tiles, direction), with the module-level allocator nextTileId passed through
move(tiles, d, nid) ==
    LET order == getTraversalOrder(d)
        Clear(t) == [t EXCEPT !.isNew = FALSE, !.isMerged = FALSE]
        st0 == [grid |-> placeAll(fill4x4(NoTile), tiles, Clear),
                merged |-> fill4x4(FALSE),
                totalScore |-> 0, anyMoved |-> FALSE, anyMerged |-> FALSE,
                nextTileId |-> nid]
        st == moveLoop(st0, order.rows, order.cols, 1, 1, getVector(d))
        Live(cell) == st.grid[cell.row][cell.col] # NoTile
        cells == SelectCells(RowMajor, Live)
    IN  [tiles |-> [k \in 1..Len(cells) |-> st.grid[cells[k].row][cells[k].col]],
         score |-> st.totalScore,
         moved |-> st.anyMoved,
         merged |-> st.anyMerged,
         nextTileId |-> st.nextTileId]

\* a win test that already accepts a 1024 tile
hasWonFrom1024(tiles) == \E i \in 1..Len(tiles) : tiles[i].value >= 1024

hasWon(tiles) == \E i \in 1..Len(tiles) : tiles[i].value = 2048

\* the (number | null)[][] built by canMove from the tiles
valueGrid(tiles) ==
    LET Value(t) == t.value IN placeAll(fill4x4(Null), tiles, Value)

\* a neighbour scan that looks along rows only
hasEqualRowNeighbours(grid) ==
    \E row \in Idx, col \in Idx : col < 3 /\ grid[row][col] = grid[row][col + 1]

\* the double loop shared by both canMove functions
hasEqualNeighbours(grid) ==
    \E row \in Idx, col \in Idx :
        \/ col < 3 /\ grid[row][col] = grid[row][col + 1]
        \/ row < 3 /\ grid[row][col] = grid[row + 1][col]

\* a canMove that looks for empty cells only
canMoveByEmptyCells(tiles) == Len(getEmptyCells(tiles)) > 0

canMove(tiles) ==
    IF Len(getEmptyCells(tiles)) > 0 THEN TRUE
    ELSE hasEqualNeighbours(valueGrid(tiles))

cloneTiles(tiles) == [i \in 1..Len(tiles) |-> tiles[i]]

\* Math.random() in hundredths: emptyCells[Math.floor(r * emptyCells.length)]
pickCell(emptyCells, r) == emptyCells[((r * Len(emptyCells)) \div 100) + 1]

\* Math.random() < 0.9 ? 2 : 4
pickValue(r) == IF r < 90 THEN 2 ELSE 4

\* a spawnTile that leaves the flags of the existing tiles as they are
spawnTileKeepingFlags(tiles, nid, rCell, rValue) ==
    LET emptyCells == getEmptyCells(tiles)
    IN  IF Len(emptyCells) = 0 THEN [tiles |-> tiles, nextTileId |-> nid]
        ELSE LET cell == pickCell(emptyCells, rCell)
                 value == pickValue(rValue)
             IN  [tiles |-> tiles \o <<createTile(nid, value, cell.row, cell.col, TRUE)>>,
                  nextTileId |-> nid + 1]

\* spawnTile(tiles) with the two Math.random() draws rCell and rValue
spawnTile(tiles, nid, rCell, rValue) ==
    LET emptyCells == getEmptyCells(tiles)
    IN  IF Len(emptyCells) = 0 THEN [tiles |-> tiles, nextTileId |-> nid]
        ELSE LET cell == pickCell(emptyCells, rCell)
                 value == pickValue(rValue)
             IN  [tiles |-> [i \in 1..Len(tiles) |->
                                [tiles[i] EXCEPT !.isNew = FALSE, !.isMerged = FALSE]]
                            \o <<createTile(nid, value, cell.row, cell.col, TRUE)>>,
                  nextTileId |-> nid + 1]

\* the Math.random() calls spawnTile(tiles) makes: none on a full board
drawsOfSpawn(tiles) == IF Len(getEmptyCells(tiles)) = 0 THEN 0 ELSE 2

\* an initializeTiles that spawns once
initializeTilesOnce(rCell1, rValue1, rCell2, rValue2) == spawnTile(<<>>, 1, rCell1, rValue1)

\* initializeTiles(): the allocator restarts at 1
initializeTiles(rCell1, rValue1, rCell2, rValue2) ==
    LET first == spawnTile(<<>>, 1, rCell1, rValue1)
    IN  spawnTile(first.tiles, first.nextTileId, rCell2, rValue2)

-----------------------------------------------------------------------------
(* Grid-indexed engine *)

createEmptyGrid == fill4x4(Null)

\* a merge loop that scores the source value instead of the merged value
RECURSIVE mergeRunSourceScore(_, _, _)
mergeRunSourceScore(filtered, i, acc) ==
    IF i > Len(filtered) THEN acc
    ELSE IF i + 1 <= Len(filtered) /\ filtered[i] = filtered[i + 1]
         THEN mergeRunSourceScore(filtered, i + 2,
                                  [newRow |-> Append(acc.newRow, filtered[i] * 2),
                                   score  |-> acc.score + filtered[i],
                                   merged |-> TRUE])
         ELSE mergeRunSourceScore(filtered, i + 1,
                                  [acc EXCEPT !.newRow = Append(acc.newRow, filtered[i])])

\* the while (i < filtered.length) loop of slideRow
RECURSIVE mergeRun(_, _, _)
mergeRun(filtered, i, acc) ==
    IF i > Len(filtered) THEN acc
    ELSE IF i + 1 <= Len(filtered) /\ filtered[i] = filtered[i + 1]
         THEN LET mergedValue == filtered[i] * 2
              IN  mergeRun(filtered, i + 2,
                           [newRow |-> Append(acc.newRow, mergedValue),
                            score  |-> acc.score + mergedValue,
                            merged |-> TRUE])
         ELSE mergeRun(filtered, i + 1, [acc EXCEPT !.newRow = Append(acc.newRow, filtered[i])])

\* slideRow(row): row is one (number | null)[] of the grid, indexed 0..3
slideRow(row) ==
    LET NotNull(v) == v # Null
        filtered == SelectCells([i \in 1..4 |-> row[i - 1]], NotNull)
        run == mergeRun(filtered, 1, [newRow |-> <<>>, score |-> 0, merged |-> FALSE])
    IN  [newRow |-> copyRow([c \in Idx |-> IF c + 1 <= Len(run.newRow) THEN run.newRow[c + 1] ELSE Null]),
         score  |-> run.score,
         merged |-> run.merged]

\* newGrid[col][3 - row] = grid[row][col]
rotateGrid90(grid) == copyGrid([r \in Idx |-> [c \in Idx |-> grid[3 - c][r]]])

\* newGrid[3 - col][row] = grid[row][col]
rotateGrid270(grid) == copyGrid([r \in Idx |-> [c \in Idx |-> grid[c][3 - r]]])

\* newGrid[3 - row][3 - col] = grid[row][col]
rotateGrid180(grid) == copyGrid([r \in Idx |-> [c \in Idx |-> grid[3 - r][3 - c]]])

gridsEqual(a, b) == \A row \in Idx, col \in Idx : a[row][col] = b[row][col]

\* the rotation applied before the rows are slid
rotateIn(grid, d) ==
    CASE d = "up"    -> rotateGrid270(grid)
      [] d = "down"  -> rotateGrid90(grid)
      [] d = "right" -> rotateGrid180(grid)
      [] OTHER       -> grid

\* the rotation applied after the rows are slid
rotateOut(grid, d) ==
    CASE d = "up"    -> rotateGrid90(grid)
      [] d = "down"  -> rotateGrid270(grid)
      [] d = "right" -> rotateGrid180(grid)
      [] OTHER       -> grid

\* sum of f[0..n]
RECURSIVE sumTo(_, _)
sumTo(f, n) == IF n < 0 THEN 0 ELSE f[n] + sumTo(f, n - 1)

\* move(grid, direction) of the grid-indexed engine
moveGrid(grid, d) ==
    LET rotated  == rotateIn(copyGrid(grid), d)
        slid     == array4(slideRow(rotated[0]), slideRow(rotated[1]),
                           slideRow(rotated[2]), slideRow(rotated[3]))
        workGrid == rotateOut(array4(slid[0].newRow, slid[1].newRow,
                                     slid[2].newRow, slid[3].newRow), d)
    IN  [grid   |-> workGrid,
         score  |-> sumTo([row \in Idx |-> slid[row].score], 3),
         moved  |-> ~gridsEqual(grid, workGrid),
         merged |-> \E row \in Idx : slid[row].merged]

getEmptyCellsGrid(grid) ==
    LET Free(cell) == grid[cell.row][cell.col] = Null
    IN  SelectCells(RowMajor, Free)

hasWonGrid(grid) == \E row \in Idx, col \in Idx : grid[row][col] = 2048

canMoveGrid(grid) ==
    IF Len(getEmptyCellsGrid(grid)) > 0 THEN TRUE
    ELSE hasEqualNeighbours(grid)

\* spawnTile(grid) of the grid-indexed engine
spawnTileGrid(grid, rCell, rValue) ==
    LET emptyCells == getEmptyCellsGrid(grid)
    IN  IF Len(emptyCells) = 0 THEN grid
        ELSE LET cell == pickCell(emptyCells, rCell)
             IN  [grid EXCEPT ![cell.row][cell.col] = pickValue(rValue)]

drawsOfSpawnGrid(grid) == IF Len(getEmptyCellsGrid(grid)) = 0 THEN 0 ELSE 2

initializeGrid(rCell1, rValue1, rCell2, rValue2) ==
    spawnTileGrid(spawnTileGrid(createEmptyGrid, rCell1, rValue1), rCell2, rValue2)

-----------------------------------------------------------------------------
(* Input boards of the engine harness *)

Vals == {Pow2(e) : e \in 1..MaxExp}
Vals0 == Vals \cup {Null}
Cells == Idx \X Idx

\* the sets of at most k cells
RECURSIVE SubsetsUpTo(_)
SubsetsUpTo(k) ==
    IF k = 0 THEN {{}}
    ELSE LET P == SubsetsUpTo(k - 1) IN P \cup {T \cup {c} : T \in P, c \in Cells}

\* base with the cells of S overwritten by f
Overwrite(base, S, f) ==
    [r \in Idx |-> [c \in Idx |-> IF <<r, c>> \in S THEN f[<<r, c>>] ELSE base[r][c]]]

\* rows that exercise the merge rules
RowPatterns ==
    { <<Null, Null, Null, Null>>, <<2, 2, 2, 2>>, <<2, Null, 2, 2>>, <<4, 4, 8, Null>>, <<2, 4, 2, 4>> }

\* the full board with no two equal neighbours
Checkerboard == [r \in Idx |-> [c \in Idx |-> IF (r + c) % 2 = 0 THEN 2 ELSE 4]]

\* at most MaxTiles tiles of the spawn values anywhere on the board
SparseBoard(grid) ==
    \E S \in SubsetsUpTo(MaxTiles) : \E f \in [S -> {2, 4}] :
        grid = Overwrite(createEmptyGrid, S, f)

\* one row or one column filled in every possible way, the rest empty
LineBoard(grid) ==
    \E k \in Idx, p \in [Idx -> Vals0] :
        \/ grid = [r \in Idx |-> [c \in Idx |-> IF r = k THEN p[c] ELSE Null]]
        \/ grid = [r \in Idx |-> [c \in Idx |-> IF c = k THEN p[r] ELSE Null]]

\* the row patterns stacked in every combination
StackedBoard(grid) ==
    \E rows \in [Idx -> RowPatterns] : grid = [r \in Idx |-> [c \in Idx |-> rows[r][c + 1]]]

\* the checkerboard with at most MaxFlips cells emptied or given another value
DenseBoard(grid) ==
    \E S \in SubsetsUpTo(MaxFlips) : \E f \in [S -> Vals0] :
        grid = Overwrite(Checkerboard, S, f)

\* the Tile[] of a board: one tile per occupied cell, ids 1..n in row-major order
tilesOfGrid(grid) ==
    LET Occupied(cell) == grid[cell.row][cell.col] # Null
        cells == SelectCells(RowMajor, Occupied)
    IN  [k \in 1..Len(cells) |->
            createTile(k, grid[cells[k].row][cells[k].col], cells[k].row, cells[k].col, FALSE)]

NoTileResult == [tiles |-> <<>>, score |-> 0, moved |-> FALSE, merged |-> FALSE, nextTileId |-> 0]
NoGridResult == [grid |-> createEmptyGrid, score |-> 0, moved |-> FALSE, merged |-> FALSE]

-----------------------------------------------------------------------------
(* Session state shared by the two controllers *)

\* previousState: null
NoSnapshot == [tiles |-> <<>>, score |-> -1]
NoGridSnapshot == [grid |-> createEmptyGrid, score |-> -1]
\* spawnTimeoutRef.current: null
NoTimer == 0

NoGameState ==
    [tiles |-> <<>>, score |-> 0, bestScore |-> 0, gameOver |-> FALSE, won |-> FALSE,
     keepPlaying |-> FALSE, previousState |-> NoSnapshot]
NoSyncState ==
    [grid |-> createEmptyGrid, score |-> 0, bestScore |-> 0, gameOver |-> FALSE, won |-> FALSE,
     keepPlaying |-> FALSE, previousState |-> NoGridSnapshot]
NoOp == [name |-> "none", accepted |-> FALSE]

\* no controller is mounted (engine harness)
SessionIdle ==
    /\ variant = "none"
    /\ gameState = NoGameState
    /\ isAnimating = FALSE
    /\ spawnTimeout = NoTimer
    /\ moveVersion = 0
    /\ timers = {}
    /\ nextTileId = 1
    /\ syncState = NoSyncState
    /\ savedBest = 0
    /\ rng = [stream |-> 1, pos |-> 1]
    /\ lastOp = NoOp
    /\ log = <<>>
    /\ cancelled = {}
    /\ wins = 0
    /\ shadow = NoSyncState

\* no engine call is being observed (controllers)
EngineIdle ==
    /\ pc = "idle"
    /\ inTiles = <<>>
    /\ inGrid = createEmptyGrid
    /\ direction = "left"
    /\ tileRes = NoTileResult
    /\ gridRes = NoGridResult
    /\ tileRes2 = NoTileResult
    /\ gridRes2 = NoGridResult

-----------------------------------------------------------------------------
(* Engine harness: one board, one direction, the move applied once and again *)

EngineInit ==
    /\ pc = "input"
    /\ \/ SparseBoard(inGrid)
       \/ LineBoard(inGrid)
       \/ StackedBoard(inGrid)
       \/ DenseBoard(inGrid)
    /\ inTiles = tilesOfGrid(inGrid)
    /\ direction = "left"
    /\ tileRes = NoTileResult
    /\ gridRes = NoGridResult
    /\ tileRes2 = NoTileResult
    /\ gridRes2 = NoGridResult
    /\ SessionIdle

\* move(board, d) in both engines
EngineMove(d) ==
    /\ pc = "input"
    /\ pc' = "moved"
    /\ direction' = d
    /\ tileRes' = move(inTiles, d, Len(inTiles) + 1)
    /\ gridRes' = moveGrid(inGrid, d)
    /\ UNCHANGED <<inTiles, inGrid, tileRes2, gridRes2, sessionVars>>

\* the same move applied to the result, with no spawn in between
EngineMoveAgain ==
    /\ pc = "moved"
    /\ pc' = "again"
    /\ tileRes2' = move(tileRes.tiles, direction, tileRes.nextTileId)
    /\ gridRes2' = moveGrid(gridRes.grid, direction)
    /\ UNCHANGED <<inTiles, inGrid, direction, tileRes, gridRes, sessionVars>>

EngineNext ==
    \/ \E d \in Directions : EngineMove(d)
    \/ EngineMoveAgain

SpecEngine == EngineInit /\ [][EngineNext]_vars


-----------------------------------------------------------------------------
(* Inputs of the controllers *)

\* the streams of values, in hundredths, that Math.random() returns call after call; a
\* spawn on a board with an empty cell takes two of them (cell, then value)
RandomStreams ==
    << <<50, 0, 50, 95, 0, 0, 99, 95>>,
       <<0, 95, 99, 0, 50, 0>> >>

\* the value the k-th next call of Math.random() returns (k = 0 for the next call)
random(r, k) ==
    LET stream == RandomStreams[r.stream]
    IN  stream[((r.pos - 1 + k) % Len(stream)) + 1]

\* the generator after n calls
advance(r, n) == [r EXCEPT !.pos = ((r.pos - 1 + n) % Len(RandomStreams[r.stream])) + 1]

\* what loadBestScore() finds in localStorage at mount (0 when nothing is stored)
StoredBest == {0}

\* a board one merge away from a 2048 tile
NearWinGrid ==
    [r \in Idx |-> [c \in Idx |->
        IF r = 0 /\ c \in {0, 1} THEN 1024 ELSE IF r = 3 /\ c = 3 THEN 2 ELSE Null]]

\* a full board whose only moves are left and right, merging the two 8s of the last row
NearStuckGrid ==
    [r \in Idx |-> [c \in Idx |->
        IF r = 3 /\ c \in {2, 3} THEN 8 ELSE IF (r + c) % 2 = 0 THEN 2 ELSE 4]]

\* sessions in mid-game as an undo leaves them (no snapshot, no overlay), with the score
\* their merges were worth and a best score above it
MidGames ==
    { [grid |-> NearWinGrid, score |-> 18432, bestScore |-> 18436],
      [grid |-> NearStuckGrid, score |-> 60, bestScore |-> 76] }

\* a max that always returns its first argument
maxFirst(a, b) == a

max(a, b) == IF a >= b THEN a ELSE b

-----------------------------------------------------------------------------
(* Deferred-spawn controller: client/src/components/Game2048.tsx *)

\* a guard that blocks on gameOver only
moveBlockedOnGameOverOnly(prev) == prev.gameOver

\* the guard of the state updater of handleMove
moveBlocked(prev) == prev.gameOver \/ (prev.won /\ ~prev.keepPlaying)

\* an updater that never takes the moved = false early return
nothingMovedIgnored(result) == FALSE

\* if (!result.moved) return prev
nothingMoved(result) == ~result.moved

\* a snapshot that keeps an earlier snapshot when there is one
snapshotOfKeepingOldest(prev) ==
    IF prev.previousState.score >= 0 THEN prev.previousState
    ELSE [tiles |-> prev.tiles, score |-> prev.score]

\* previousState: { tiles: cloneTiles(prev.tiles), score: prev.score }
snapshotOf(prev) == [tiles |-> cloneTiles(prev.tiles), score |-> prev.score]

\* an accepted move that subtracts the score delta
movedStateSubtracting(prev, result) ==
    [tiles         |-> result.tiles,
     score         |-> prev.score - result.score,
     bestScore     |-> max(prev.score - result.score, prev.bestScore),
     gameOver      |-> FALSE,
     won           |-> prev.won,
     keepPlaying   |-> prev.keepPlaying,
     previousState |-> [tiles |-> prev.tiles, score |-> prev.score]]

\* an accepted move that stores no snapshot
movedStateWithoutSnapshot(prev, result) ==
    [tiles         |-> result.tiles,
     score         |-> prev.score + result.score,
     bestScore     |-> max(prev.score + result.score, prev.bestScore),
     gameOver      |-> FALSE,
     won           |-> prev.won,
     keepPlaying   |-> prev.keepPlaying,
     previousState |-> prev.previousState]

\* the state returned by the updater of handleMove for an accepted move
movedState(prev, result) ==
    [tiles         |-> result.tiles,
     score         |-> prev.score + result.score,
     bestScore     |-> max(prev.score + result.score, prev.bestScore),
     gameOver      |-> FALSE,
     won           |-> prev.won,
     keepPlaying   |-> prev.keepPlaying,
     previousState |-> snapshotOf(prev)]

\* a spawn callback that does not recompute gameOver
spawnedStateKeepingGameOver(current, tilesWithNew) ==
    [current EXCEPT
        !.tiles = tilesWithNew,
        !.won   = ~current.won /\ ~current.keepPlaying /\ hasWon(tilesWithNew)]

\* a spawn callback whose win test forgets keepPlaying
spawnedStateIgnoringKeepPlaying(current, tilesWithNew) ==
    [current EXCEPT
        !.tiles    = tilesWithNew,
        !.gameOver = ~canMove(tilesWithNew),
        !.won      = ~current.won /\ hasWon(tilesWithNew)]

\* the state returned by the updater inside the spawn callback
spawnedState(current, tilesWithNew) ==
    [current EXCEPT
        !.tiles    = tilesWithNew,
        !.gameOver = ~canMove(tilesWithNew),
        !.won      = ~current.won /\ ~current.keepPlaying /\ hasWon(tilesWithNew)]

\* the state returned by the updater of handleNewGame
newGameState(prev, tiles) ==
    [tiles |-> tiles, score |-> 0, bestScore |-> prev.bestScore, gameOver |-> FALSE,
     won |-> FALSE, keepPlaying |-> FALSE, previousState |-> NoSnapshot]

\* an undo that keeps the snapshot and the won flag
undoneStateKeepingSnapshot(prev) ==
    IF prev.previousState.score < 0 THEN prev
    ELSE [prev EXCEPT
            !.tiles    = prev.previousState.tiles,
            !.score    = prev.previousState.score,
            !.gameOver = FALSE]

\* the state returned by the updater of handleUndo
undoneState(prev) ==
    IF prev.previousState = NoSnapshot THEN prev
    ELSE [prev EXCEPT
            !.tiles         = prev.previousState.tiles,
            !.score         = prev.previousState.score,
            !.gameOver      = FALSE,
            !.won           = FALSE,
            !.previousState = NoSnapshot]

\* a keepPlaying that leaves the win displayed
keptPlayingStateKeepingWon(prev) == [prev EXCEPT !.keepPlaying = TRUE]

\* the state returned by the updater of handleKeepPlaying
keptPlayingState(prev) == [prev EXCEPT !.won = FALSE, !.keepPlaying = TRUE]

\* clearPendingSpawn(): the cleared timer's callback is no longer due; it is kept in
\* cancelled, from where it can still be run to see what its version check does
clearPendingSpawn ==
    /\ timers' = IF spawnTimeout # NoTimer THEN timers \ {spawnTimeout} ELSE timers
    /\ cancelled' = IF spawnTimeout # NoTimer THEN cancelled \cup {spawnTimeout} ELSE cancelled
    /\ spawnTimeout' = NoTimer
    /\ moveVersion' = moveVersion + 1
    /\ isAnimating' = FALSE

\* a handleMove that does not look at the animating guard
spawnPendingIgnored == FALSE

\* if (isAnimatingRef.current) return
spawnPending == isAnimating

\* a callback that does not compare versions
versionOutdatedIgnored(currentVersion) == FALSE

\* if (moveVersionRef.current !== currentVersion) return
versionOutdated(currentVersion) == moveVersion # currentVersion

\* won is about to go from false to true
winsAfter(before, after) == IF ~before.won /\ after.won THEN wins + 1 ELSE wins

Took(name) == [name |-> name, accepted |-> TRUE]
Refused(name) == [name |-> name, accepted |-> FALSE]

-----------------------------------------------------------------------------
(* State updaters of the synchronous-spawn controller on the grid-indexed engine *)

\* previousState: { grid: prev.grid, score: prev.score }
syncSnapshotOf(prev) == [grid |-> prev.grid, score |-> prev.score]

\* the state returned by the updater of handleMove for an accepted move
syncMovedState(prev, result, newGrid) ==
    [grid          |-> newGrid,
     score         |-> prev.score + result.score,
     bestScore     |-> max(prev.score + result.score, prev.bestScore),
     gameOver      |-> ~canMoveGrid(newGrid),
     won           |-> ~prev.won /\ ~prev.keepPlaying /\ hasWonGrid(newGrid),
     keepPlaying   |-> prev.keepPlaying,
     previousState |-> syncSnapshotOf(prev)]

syncNewGameState(prev, grid) ==
    [grid |-> grid, score |-> 0, bestScore |-> prev.bestScore, gameOver |-> FALSE,
     won |-> FALSE, keepPlaying |-> FALSE, previousState |-> NoGridSnapshot]

syncUndoneState(prev) ==
    IF prev.previousState = NoGridSnapshot THEN prev
    ELSE [prev EXCEPT
            !.grid          = prev.previousState.grid,
            !.score         = prev.previousState.score,
            !.gameOver      = FALSE,
            !.won           = FALSE,
            !.previousState = NoGridSnapshot]

\* the updater of the synchronous handleMove: prev when the move is blocked or moves nothing
syncMoveUpdater(prev, d, rCell, rValue) ==
    IF moveBlocked(prev) THEN prev
    ELSE LET result == moveGrid(prev.grid, d)
         IN  IF nothingMoved(result) THEN prev
             ELSE syncMovedState(prev, result, spawnTileGrid(result.grid, rCell, rValue))

-----------------------------------------------------------------------------
(* Actions of the deferred-spawn controller *)

DeferredInit ==
    /\ variant = "deferred"
    /\ \E seed \in DOMAIN RandomStreams :
        \/ \E best \in StoredBest :
            LET r0 == [stream |-> seed, pos |-> 1]
                init == initializeTiles(random(r0, 0), random(r0, 1), random(r0, 2), random(r0, 3))
            IN  /\ gameState = [newGameState(NoGameState, init.tiles) EXCEPT !.bestScore = best]
                /\ nextTileId = init.nextTileId
                /\ savedBest = best
                /\ rng = advance(r0, 4)
                /\ shadow = [syncNewGameState(NoSyncState,
                                 initializeGrid(random(r0, 0), random(r0, 1),
                                                random(r0, 2), random(r0, 3)))
                                 EXCEPT !.bestScore = best]
        \/ \E g \in MidGames :
            /\ gameState = [newGameState(NoGameState, tilesOfGrid(g.grid)) EXCEPT
                                !.score = g.score, !.bestScore = g.bestScore]
            /\ nextTileId = Len(tilesOfGrid(g.grid)) + 1
            /\ savedBest = g.bestScore
            /\ rng = [stream |-> seed, pos |-> 1]
            /\ shadow = [syncNewGameState(NoSyncState, g.grid) EXCEPT
                                !.score = g.score, !.bestScore = g.bestScore]
    /\ isAnimating = FALSE
    /\ spawnTimeout = NoTimer
    /\ moveVersion = 0
    /\ timers = {}
    /\ syncState = NoSyncState
    /\ lastOp = NoOp
    /\ log = <<>>
    /\ cancelled = {}
    /\ wins = 0

\* handleMove(direction); the synchronous controller (shadow) is handed every move that
\* does not arrive while a spawn is pending, with the draws the pending spawn will use
HandleMove(d) ==
    /\ variant = "deferred"
    /\ IF spawnPending
       THEN /\ lastOp' = Refused("move")
            /\ UNCHANGED <<gameState, isAnimating, spawnTimeout, moveVersion, timers,
                           nextTileId, savedBest, log, shadow>>
       ELSE /\ shadow' = syncMoveUpdater(shadow, d, random(rng, 0), random(rng, 1))
            /\ IF moveBlocked(gameState)
               THEN /\ lastOp' = Refused("move")
                    /\ UNCHANGED <<gameState, isAnimating, spawnTimeout, moveVersion, timers,
                                   nextTileId, savedBest, log>>
               ELSE LET result == move(gameState.tiles, d, nextTileId)
                    IN  IF nothingMoved(result)
                        THEN /\ lastOp' = Refused("move")
                             /\ nextTileId' = result.nextTileId
                             /\ UNCHANGED <<gameState, isAnimating, spawnTimeout, moveVersion,
                                            timers, savedBest, log>>
                        ELSE /\ moveVersion < MaxVersion
                             /\ isAnimating' = TRUE
                             /\ moveVersion' = moveVersion + 1
                             /\ gameState' = movedState(gameState, result)
                             /\ savedBest' = IF gameState'.bestScore > gameState.bestScore
                                             THEN gameState'.bestScore ELSE savedBest
                             /\ timers' = timers \cup {moveVersion + 1}
                             /\ spawnTimeout' = moveVersion + 1
                             /\ nextTileId' = result.nextTileId
                             /\ lastOp' = Took("move")
                             /\ log' = Append(log, "move")
    /\ UNCHANGED <<variant, syncState, rng, cancelled, wins, engineVars>>

\* a callback that spawns but leaves the animating guard set
spawnCallbackKeepingGuard(currentVersion) ==
    IF versionOutdated(currentVersion)
    THEN /\ lastOp' = Refused("spawn")
         /\ UNCHANGED <<gameState, isAnimating, spawnTimeout, nextTileId, rng, log, wins>>
    ELSE LET spawned == spawnTile(gameState.tiles, nextTileId, random(rng, 0), random(rng, 1))
         IN  /\ gameState' = spawnedState(gameState, spawned.tiles)
             /\ nextTileId' = spawned.nextTileId
             /\ rng' = advance(rng, drawsOfSpawn(gameState.tiles))
             /\ isAnimating' = isAnimating
             /\ spawnTimeout' = NoTimer
             /\ wins' = winsAfter(gameState, gameState')
             /\ lastOp' = Took("spawn")
             /\ log' = Append(log, "spawn")

\* the body of the callback handleMove hands to setTimeout; currentVersion is the version it
\* captured
spawnCallback(currentVersion) ==
    IF versionOutdated(currentVersion)
    THEN /\ lastOp' = Refused("spawn")
         /\ UNCHANGED <<gameState, isAnimating, spawnTimeout, nextTileId, rng, log, wins>>
    ELSE LET spawned == spawnTile(gameState.tiles, nextTileId, random(rng, 0), random(rng, 1))
         IN  /\ gameState' = spawnedState(gameState, spawned.tiles)
             /\ nextTileId' = spawned.nextTileId
             /\ rng' = advance(rng, drawsOfSpawn(gameState.tiles))
             /\ isAnimating' = FALSE
             /\ spawnTimeout' = NoTimer
             /\ wins' = winsAfter(gameState, gameState')
             /\ lastOp' = Took("spawn")
             /\ log' = Append(log, "spawn")

\* the timer set by the move of version v fires
SpawnCallback(v) ==
    /\ variant = "deferred"
    /\ v \in timers
    /\ timers' = timers \ {v}
    /\ spawnCallback(v)
    /\ UNCHANGED <<variant, moveVersion, savedBest, syncState, cancelled, shadow, engineVars>>

\* a callback whose timer clearPendingSpawn cleared is run all the same
StaleCallback(v) ==
    /\ variant = "deferred"
    /\ v \in cancelled
    /\ cancelled' = cancelled \ {v}
    /\ spawnCallback(v)
    /\ UNCHANGED <<variant, moveVersion, savedBest, syncState, timers, shadow, engineVars>>

\* handleNewGame()
HandleNewGame ==
    /\ variant = "deferred"
    /\ moveVersion < MaxVersion
    /\ clearPendingSpawn
    /\ LET init == initializeTiles(random(rng, 0), random(rng, 1), random(rng, 2), random(rng, 3))
       IN  /\ gameState' = newGameState(gameState, init.tiles)
           /\ nextTileId' = init.nextTileId
           /\ rng' = advance(rng, 4)
    /\ shadow' = syncNewGameState(shadow, initializeGrid(random(rng, 0), random(rng, 1),
                                                          random(rng, 2), random(rng, 3)))
    /\ wins' = 0
    /\ lastOp' = Took("newGame")
    /\ log' = Append(log, "newGame")
    /\ UNCHANGED <<variant, savedBest, syncState, engineVars>>

\* handleUndo()
HandleUndo ==
    /\ variant = "deferred"
    /\ moveVersion < MaxVersion
    /\ clearPendingSpawn
    /\ gameState' = undoneState(gameState)
    /\ shadow' = syncUndoneState(shadow)
    /\ IF gameState.previousState = NoSnapshot
       THEN lastOp' = Refused("undo") /\ UNCHANGED log
       ELSE lastOp' = Took("undo") /\ log' = Append(log, "undo")
    /\ UNCHANGED <<variant, nextTileId, savedBest, syncState, rng, wins, engineVars>>

\* handleKeepPlaying()
HandleKeepPlaying ==
    /\ variant = "deferred"
    /\ gameState' = keptPlayingState(gameState)
    /\ shadow' = keptPlayingState(shadow)
    /\ lastOp' = Took("keepPlaying")
    /\ UNCHANGED <<variant, isAnimating, spawnTimeout, moveVersion, timers, nextTileId,
                   savedBest, syncState, rng, log, cancelled, wins, engineVars>>

-----------------------------------------------------------------------------
(* Synchronous-spawn controller on the grid-indexed engine *)

SyncInit ==
    /\ variant = "sync"
    /\ \E seed \in DOMAIN RandomStreams :
        \/ \E best \in StoredBest :
            LET r0 == [stream |-> seed, pos |-> 1]
            IN  /\ syncState = [syncNewGameState(NoSyncState,
                                    initializeGrid(random(r0, 0), random(r0, 1),
                                                   random(r0, 2), random(r0, 3)))
                                    EXCEPT !.bestScore = best]
                /\ savedBest = best
                /\ rng = advance(r0, 4)
        \/ \E g \in MidGames :
            /\ syncState = [syncNewGameState(NoSyncState, g.grid) EXCEPT
                                !.score = g.score, !.bestScore = g.bestScore]
            /\ savedBest = g.bestScore
            /\ rng = [stream |-> seed, pos |-> 1]
    /\ gameState = NoGameState
    /\ isAnimating = FALSE
    /\ spawnTimeout = NoTimer
    /\ moveVersion = 0
    /\ timers = {}
    /\ nextTileId = 1
    /\ lastOp = NoOp
    /\ log = <<>>
    /\ cancelled = {}
    /\ wins = 0
    /\ shadow = NoSyncState

\* handleMove(direction): move, spawn and terminal checks in one state update
SyncHandleMove(d) ==
    /\ variant = "sync"
    /\ syncState' = syncMoveUpdater(syncState, d, random(rng, 0), random(rng, 1))
    /\ IF moveBlocked(syncState) \/ nothingMoved(moveGrid(syncState.grid, d))
       THEN lastOp' = Refused("move") /\ UNCHANGED <<savedBest, rng, log, wins>>
       ELSE /\ Len(log) < MaxSteps
            /\ rng' = advance(rng, drawsOfSpawnGrid(moveGrid(syncState.grid, d).grid))
            /\ savedBest' = IF syncState'.bestScore > syncState.bestScore
                            THEN syncState'.bestScore ELSE savedBest
            /\ wins' = winsAfter(syncState, syncState')
            /\ lastOp' = Took("move")
            /\ log' = Append(log, "move")
    /\ UNCHANGED <<variant, gameState, isAnimating, spawnTimeout, moveVersion, timers,
                   nextTileId, cancelled, shadow, engineVars>>

\* handleNewGame()
SyncHandleNewGame ==
    /\ variant = "sync"
    /\ Len(log) < MaxSteps
    /\ syncState' = syncNewGameState(syncState,
                        initializeGrid(random(rng, 0), random(rng, 1), random(rng, 2), random(rng, 3)))
    /\ rng' = advance(rng, 4)
    /\ wins' = 0
    /\ lastOp' = Took("newGame")
    /\ log' = Append(log, "newGame")
    /\ UNCHANGED <<variant, gameState, isAnimating, spawnTimeout, moveVersion, timers,
                   nextTileId, savedBest, cancelled, shadow, engineVars>>

\* handleUndo()
SyncHandleUndo ==
    /\ variant = "sync"
    /\ syncState' = syncUndoneState(syncState)
    /\ IF syncState.previousState = NoGridSnapshot
       THEN lastOp' = Refused("undo") /\ UNCHANGED log
       ELSE Len(log) < MaxSteps /\ lastOp' = Took("undo") /\ log' = Append(log, "undo")
    /\ UNCHANGED <<variant, gameState, isAnimating, spawnTimeout, moveVersion, timers,
                   nextTileId, savedBest, rng, cancelled, wins, shadow, engineVars>>

\* handleKeepPlaying()
SyncHandleKeepPlaying ==
    /\ variant = "sync"
    /\ syncState' = keptPlayingState(syncState)
    /\ lastOp' = Took("keepPlaying")
    /\ UNCHANGED <<variant, gameState, isAnimating, spawnTimeout, moveVersion, timers,
                   nextTileId, savedBest, rng, log, cancelled, wins, shadow, engineVars>>

-----------------------------------------------------------------------------
(* The controllers: one of the two is mounted, and commands arrive in any order *)

Init == EngineIdle /\ (DeferredInit \/ SyncInit)

Next ==
    \/ \E d \in Directions : HandleMove(d)
    \/ \E v \in timers : SpawnCallback(v)
    \/ \E v \in cancelled : StaleCallback(v)
    \/ HandleNewGame
    \/ HandleUndo
    \/ HandleKeepPlaying
    \/ \E d \in Directions : SyncHandleMove(d)
    \/ SyncHandleNewGame
    \/ SyncHandleUndo
    \/ SyncHandleKeepPlaying

Spec == Init /\ [][Next]_vars

\* setTimeout(callback, 150): the scheduled callback is run
TimerFires == \E v \in timers : SpawnCallback(v)

\* the scheduled callback leaves the timer queue without having been cleared: what a
\* TimerFires step does to the queue, and no other step of Next does
TimerRuns == timers # {} /\ timers' = {} /\ cancelled' = cancelled

\* the controllers with timers that fire: a callback that stays scheduled is run
SpecLive == Init /\ [][Next]_vars /\ WF_timers(TimerRuns)

\* the engine harness and the controllers side by side: a behaviour is one of either
SpecAll == (EngineInit \/ Init) /\ [][EngineNext \/ Next]_vars

-----------------------------------------------------------------------------
(* Vocabulary of the engine properties *)

RECURSIVE Log2(_)
Log2(v) == IF v <= 1 THEN 0 ELSE 1 + Log2(v \div 2)

\* sum of F over the cells of a grid of values
RECURSIVE sumCells(_, _)
sumCells(f, i) == IF i = 0 THEN 0 ELSE f[i] + sumCells(f, i - 1)

GridSum(grid, F(_)) ==
    sumCells([i \in 1..16 |-> F(grid[RowMajor[i].row][RowMajor[i].col])], 16)

\* what the merges that built a tile of value v out of 2s would have scored
MergeWorth(v) == IF v = Null THEN 0 ELSE v * (Log2(v) - 1)
Worth(grid) == GridSum(grid, MergeWorth)

TileCount(grid) == Cardinality({cell \in Cells : grid[cell[1]][cell[2]] # Null})

\* the cells of the k-th line along direction d (a row for left/right, a column for up/down)
LineCells(d, k) ==
    IF d \in {"left", "right"} THEN {<<k, c>> : c \in Idx} ELSE {<<r, k>> : r \in Idx}

InLine(t, d, k) == <<t.row, t.col>> \in LineCells(d, k)

TilesWhere(tiles, P(_)) == {i \in 1..Len(tiles) : P(tiles[i])}

MergedTiles(tiles) == LET M(t) == t.isMerged IN TilesWhere(tiles, M)

\* sum of the values of the tiles at the indices of S
RECURSIVE sumValues(_, _)
sumValues(tiles, S) ==
    IF S = {} THEN 0
    ELSE LET i == CHOOSE x \in S : TRUE IN tiles[i].value + sumValues(tiles, S \ {i})

\* row r of a grid as a tuple
RowOf(grid, r) == <<grid[r][0], grid[r][1], grid[r][2], grid[r][3]>>

-----------------------------------------------------------------------------
(* C1: for every input board and direction the tile-identity move and the   *)
(* grid-indexed move return the same values cell by cell, the same score    *)
(* delta, the same moved flag and the same merged flag (also when the move  *)
(* is applied a second time to the result).                                 *)
C1_EnginesAgree ==
    /\ pc = "moved" =>
        /\ valueGrid(tileRes.tiles) = gridRes.grid
        /\ tileRes.score = gridRes.score
        /\ tileRes.moved = gridRes.moved
        /\ tileRes.merged = gridRes.merged
    /\ pc = "again" =>
        /\ valueGrid(tileRes2.tiles) = gridRes2.grid
        /\ tileRes2.score = gridRes2.score
        /\ tileRes2.moved = gridRes2.moved
        /\ tileRes2.merged = gridRes2.merged

C1_Witness ==
    /\ pc = "moved"
    /\ direction = "up"
    /\ Len(inTiles) >= 8
    /\ tileRes.merged /\ gridRes.merged
    /\ Len(tileRes.tiles) <= Len(inTiles) - 3

(* C2: merging is pairwise within one move call: every merge consumes two   *)
(* input tiles of half its value lying in the merged tile's line, so the    *)
(* tile count drops by exactly the number of merged tiles and no line       *)
(* shrinks below half its tiles; [2,null,2,2] moved left gives              *)
(* [4,2,null,null] and [4,4,8,null] gives [8,8,null,null].                  *)
C2_PairwiseMerge ==
    pc = "moved" =>
        /\ Len(inTiles) - Len(tileRes.tiles) = Cardinality(MergedTiles(tileRes.tiles))
        /\ \A k \in Idx, v \in {t.value : t \in {tileRes.tiles[i] : i \in 1..Len(tileRes.tiles)}} :
            LET Made(t) == t.isMerged /\ t.value = v /\ InLine(t, direction, k)
                Half(t) == t.value * 2 = v /\ InLine(t, direction, k)
                Same(t) == t.value = v /\ InLine(t, direction, k)
                Kept(t) == ~t.isMerged /\ t.value = v /\ InLine(t, direction, k)
            IN  /\ Cardinality(TilesWhere(inTiles, Half))
                     >= 2 * Cardinality(TilesWhere(tileRes.tiles, Made))
                /\ Cardinality(TilesWhere(inTiles, Same))
                     >= Cardinality(TilesWhere(tileRes.tiles, Kept))
        /\ \A k \in Idx :
            LET In(t) == InLine(t, direction, k)
                Out(cell) == cell \in LineCells(direction, k) /\ gridRes.grid[cell[1]][cell[2]] # Null
            IN  /\ 2 * Cardinality(TilesWhere(tileRes.tiles, In)) >= Cardinality(TilesWhere(inTiles, In))
                /\ 2 * Cardinality({cell \in Cells : Out(cell)}) >= Cardinality(TilesWhere(inTiles, In))
        /\ \A r \in Idx :
            /\ (direction = "left" /\ RowOf(inGrid, r) = <<2, Null, 2, 2>>) =>
                 /\ RowOf(gridRes.grid, r) = <<4, 2, Null, Null>>
                 /\ RowOf(valueGrid(tileRes.tiles), r) = <<4, 2, Null, Null>>
            /\ (direction = "left" /\ RowOf(inGrid, r) = <<4, 4, 8, Null>>) =>
                 /\ RowOf(gridRes.grid, r) = <<8, 8, Null, Null>>
                 /\ RowOf(valueGrid(tileRes.tiles), r) = <<8, 8, Null, Null>>

C2_Witness ==
    /\ pc = "moved"
    /\ direction = "left"
    /\ RowOf(inGrid, 0) = <<4, 4, 8, Null>>
    /\ RowOf(inGrid, 2) = <<2, Null, 2, 2>>
    /\ RowOf(gridRes.grid, 0) = <<8, 8, Null, Null>>
    /\ Cardinality(MergedTiles(tileRes.tiles)) >= 2

(* C3: the score of one move call is the sum of the values of the tiles     *)
(* created by merges in that call, each twice its source tiles' value (so   *)
(* the score is the rise of the board's merge worth); it is even, never     *)
(* negative, and zero exactly when merged is false.                         *)
C3_ScoreIsMergeSum ==
    pc = "moved" =>
        /\ tileRes.score = sumValues(tileRes.tiles, MergedTiles(tileRes.tiles))
        /\ tileRes.score = Worth(valueGrid(tileRes.tiles)) - Worth(inGrid)
        /\ gridRes.score = Worth(gridRes.grid) - Worth(inGrid)
        /\ tileRes.score >= 0 /\ tileRes.score % 2 = 0
        /\ gridRes.score >= 0 /\ gridRes.score % 2 = 0
        /\ (tileRes.score = 0) <=> ~tileRes.merged
        /\ (gridRes.score = 0) <=> ~gridRes.merged

C3_Witness ==
    /\ pc = "moved"
    /\ Cardinality(MergedTiles(tileRes.tiles)) >= 3
    /\ \E i, j \in MergedTiles(tileRes.tiles) : tileRes.tiles[i].value # tileRes.tiles[j].value
    /\ tileRes.score >= 20
    /\ gridRes.score = tileRes.score

(* C4 as stated: a second move in the same direction, with no spawn in      *)
(* between, always reports moved = false.                                   *)
C4_SecondMoveNeverMoves ==
    pc = "again" => ~tileRes2.moved /\ ~gridRes2.moved

(* C4 amended: a second move in the same direction, with no spawn in        *)
(* between, reports moved = false whenever the first move made no merge;    *)
(* after a first move with merges the second one moves only by merging.     *)
C4_SecondMoveOnlyMerges ==
    pc = "again" =>
        /\ ~tileRes.merged => ~tileRes2.moved
        /\ ~gridRes.merged => ~gridRes2.moved
        /\ tileRes2.moved => tileRes2.merged
        /\ gridRes2.moved => gridRes2.merged

C4_Witness ==
    /\ pc = "again"
    /\ tileRes.moved /\ ~tileRes.merged
    /\ Len(inTiles) >= 6
    /\ ~tileRes2.moved /\ ~gridRes2.moved

(* C5 as stated, of every input board: canMove is false iff all 16 cells   *)
(* are occupied and no two row- or column-adjacent cells hold the same      *)
(* value; with an empty cell it is true; and canMove is true iff move       *)
(* reports moved = true for some direction.                                 *)
BoardFull == \A cell \in Cells : inGrid[cell[1]][cell[2]] # Null
EqualPair ==
    \E a \in Cells, b \in Cells :
        /\ (a[1] = b[1] /\ b[2] = a[2] + 1) \/ (a[2] = b[2] /\ b[1] = a[1] + 1)
        /\ inGrid[a[1]][a[2]] = inGrid[b[1]][b[2]]
SomeTileMove == \E d \in Directions : move(inTiles, d, Len(inTiles) + 1).moved
SomeGridMove == \E d \in Directions : moveGrid(inGrid, d).moved

C5_CanMoveIffSomeMove ==
    pc = "input" =>
        /\ canMove(inTiles) = ~(BoardFull /\ ~EqualPair)
        /\ canMoveGrid(inGrid) = ~(BoardFull /\ ~EqualPair)
        /\ ~BoardFull => canMove(inTiles) /\ canMoveGrid(inGrid)
        /\ canMove(inTiles) = SomeTileMove
        /\ canMoveGrid(inGrid) = SomeGridMove

(* C5 amended, of every input board: canMove is false iff all 16 cells are  *)
(* occupied and no two row- or column-adjacent cells hold the same value;   *)
(* with an empty cell it is true; and on every board that holds at least    *)
(* one tile canMove is true iff move reports moved = true for some          *)
(* direction (on the empty board canMove is true and no direction moves).   *)
C5_CanMoveIffSomeMoveNonEmpty ==
    pc = "input" =>
        /\ canMove(inTiles) = ~(BoardFull /\ ~EqualPair)
        /\ canMoveGrid(inGrid) = ~(BoardFull /\ ~EqualPair)
        /\ ~BoardFull => canMove(inTiles) /\ canMoveGrid(inGrid)
        /\ Len(inTiles) > 0 => canMove(inTiles) = SomeTileMove
        /\ TileCount(inGrid) > 0 => canMoveGrid(inGrid) = SomeGridMove
        /\ Len(inTiles) = 0 => canMove(inTiles) /\ ~SomeTileMove /\ canMoveGrid(inGrid) /\ ~SomeGridMove

C5_Witness ==
    /\ pc = "moved"
    /\ Len(inTiles) = 16
    /\ ~canMove(inTiles) /\ ~canMoveGrid(inGrid)
    /\ ~tileRes.moved /\ ~gridRes.moved


-----------------------------------------------------------------------------
(* Vocabulary of the controller properties *)

IsPowerOfTwo(v) == v >= 2 /\ Pow2(Log2(v)) = v

\* a Tile[] is a well-formed board
WellFormedTiles(tiles) ==
    /\ Len(tiles) <= 16
    /\ \A i \in 1..Len(tiles) :
        /\ tiles[i].row \in Idx /\ tiles[i].col \in Idx
        /\ IsPowerOfTwo(tiles[i].value)
    /\ \A i, j \in 1..Len(tiles) :
        i # j => <<tiles[i].row, tiles[i].col>> # <<tiles[j].row, tiles[j].col>>

\* a Grid is a well-formed board
WellFormedGrid(grid) ==
    /\ DOMAIN grid = Idx
    /\ \A r \in Idx : DOMAIN grid[r] = Idx
    /\ \A r \in Idx, c \in Idx : grid[r][c] = Null \/ IsPowerOfTwo(grid[r][c])

\* the cells a Tile[] occupies
CellsOf(tiles) == {<<tiles[i].row, tiles[i].col>> : i \in 1..Len(tiles)}

\* everything the deferred controller holds except its version counter and the histories
DeferredFrame == <<gameState, isAnimating, spawnTimeout, timers, nextTileId, savedBest, rng>>
SyncFrame == <<syncState, savedBest, rng>>

LastLogged == IF Len(log) = 0 THEN "none" ELSE log[Len(log)]

(* C6: in every reachable state of either controller the board is well      *)
(* formed (at most 16 tiles, one tile per cell, rows and columns in 0..3,   *)
(* every value a power of two >= 2), and a spawn adds its tile on a cell    *)
(* that was empty, leaving every other tile where it was.                   *)
C6_BoardWellFormed ==
    /\ [](variant = "deferred" => WellFormedTiles(gameState.tiles))
    /\ [](variant = "sync" => WellFormedGrid(syncState.grid))
    /\ [][\A v \in timers : SpawnCallback(v) /\ moveVersion = v =>
            LET old == gameState.tiles
                new == gameState'.tiles
            IN  /\ Len(new) = Len(old) + 1
                /\ <<new[Len(new)].row, new[Len(new)].col>> \notin CellsOf(old)
                /\ new[Len(new)].value \in {2, 4}
                /\ \A i \in 1..Len(old) :
                    /\ new[i].id = old[i].id /\ new[i].value = old[i].value
                    /\ new[i].row = old[i].row /\ new[i].col = old[i].col]_vars
    /\ [][\A d \in Directions : lastOp' = Took("move") /\ SyncHandleMove(d) =>
            LET slid == moveGrid(syncState.grid, d).grid
                new  == syncState'.grid
            IN  /\ TileCount(new) = TileCount(slid) + 1
                /\ \A cell \in Cells :
                    slid[cell[1]][cell[2]] # Null => new[cell[1]][cell[2]] = slid[cell[1]][cell[2]]]_vars

C6_Witness ==
    /\ variant = "deferred"
    /\ lastOp = Took("spawn")
    /\ Len(gameState.tiles) = 16
    /\ gameState.tiles[16].isNew

(* C7: a move command delivered in a playable state for which move          *)
(* resolution reports moved = false leaves the whole session unchanged: no  *)
(* tile spawned, score, bestScore and the stored best score unchanged,      *)
(* previousState not overwritten, gameOver/won/keepPlaying unchanged, and   *)
(* in the deferred controller no spawn scheduled, the version not advanced  *)
(* and the animating guard still false.                                     *)
C7_NoMoveIsNoOp ==
    /\ [][\A d \in Directions :
            ( /\ variant = "deferred" /\ lastOp'.name = "move"
              /\ ~isAnimating
              /\ ~(gameState.gameOver \/ (gameState.won /\ ~gameState.keepPlaying))
              /\ ~move(gameState.tiles, d, nextTileId).moved
              /\ HandleMove(d) )
            => /\ UNCHANGED <<DeferredFrame, moveVersion, log>>
               /\ ~isAnimating' /\ timers' = {}]_vars
    /\ [][\A d \in Directions :
            ( /\ variant = "sync" /\ lastOp'.name = "move"
              /\ ~(syncState.gameOver \/ (syncState.won /\ ~syncState.keepPlaying))
              /\ ~moveGrid(syncState.grid, d).moved
              /\ SyncHandleMove(d) )
            => UNCHANGED <<SyncFrame, log>>]_vars

C7_Witness ==
    /\ variant = "deferred"
    /\ lastOp = Refused("move")
    /\ ~isAnimating
    /\ ~gameState.gameOver /\ ~gameState.won
    /\ gameState.previousState # NoSnapshot
    /\ \E d \in Directions : ~move(gameState.tiles, d, nextTileId).moved

(* C8: a move command delivered while gameOver is true, or while won is     *)
(* true and keepPlaying is false, is a full no-op for every direction, even *)
(* if the board could still move: tiles, score, bestScore, previousState    *)
(* and all flags stay as they were.                                         *)
C8_BlockedMoveIsNoOp ==
    /\ [][\A d \in Directions :
            ( /\ variant = "deferred" /\ lastOp'.name = "move"
              /\ (gameState.gameOver \/ (gameState.won /\ ~gameState.keepPlaying))
              /\ HandleMove(d) )
            => UNCHANGED <<DeferredFrame, moveVersion, log>>]_vars
    /\ [][\A d \in Directions :
            ( /\ variant = "sync" /\ lastOp'.name = "move"
              /\ (syncState.gameOver \/ (syncState.won /\ ~syncState.keepPlaying))
              /\ SyncHandleMove(d) )
            => UNCHANGED <<SyncFrame, log>>]_vars

C8_Witness ==
    /\ variant = "deferred"
    /\ lastOp = Refused("move")
    /\ gameState.won /\ ~gameState.keepPlaying /\ ~gameState.gameOver
    /\ ~isAnimating
    /\ \A d \in Directions : move(gameState.tiles, d, nextTileId).moved

(* C9: every accepted move stores in previousState exactly the tiles and    *)
(* the score the session had immediately before it (a settled state: no     *)
(* spawn was pending), replacing any earlier snapshot; the spawn callback   *)
(* leaves the snapshot alone and an undo restores exactly the stored        *)
(* snapshot; so after two accepted moves and an undo the board and score    *)
(* are those settled after the first move, with its spawned tile.           *)
C9_SnapshotIsPreMoveState ==
    /\ [][\A d \in Directions : lastOp' = Took("move") /\ HandleMove(d) =>
            /\ gameState'.previousState = [tiles |-> gameState.tiles, score |-> gameState.score]
            /\ timers = {} /\ ~isAnimating]_vars
    /\ [][\A v \in timers : lastOp'.name = "spawn" /\ SpawnCallback(v) =>
            /\ gameState'.previousState = gameState.previousState
            /\ gameState'.score = gameState.score]_vars
    /\ [][HandleUndo /\ lastOp' = Took("undo") =>
            /\ gameState'.tiles = gameState.previousState.tiles
            /\ gameState'.score = gameState.previousState.score]_vars
    /\ [][\A d \in Directions : lastOp' = Took("move") /\ SyncHandleMove(d) =>
            syncState'.previousState = [grid |-> syncState.grid, score |-> syncState.score]]_vars
    /\ [][SyncHandleUndo /\ lastOp' = Took("undo") =>
            /\ syncState'.grid = syncState.previousState.grid
            /\ syncState'.score = syncState.previousState.score]_vars

C9_Witness ==
    /\ variant = "deferred"
    /\ log = <<"move", "spawn", "move", "undo">>
    /\ lastOp = Took("undo")
    /\ Len(gameState.tiles) = 3
    /\ \E i \in 1..3 : gameState.tiles[i].id = 3 /\ gameState.tiles[i].isNew

(* C10: an undo with previousState absent leaves the session unchanged (in  *)
(* the deferred controller no spawn is pending then, so none is cancelled); *)
(* undo and newGame clear previousState, so an undo right after either is a *)
(* no-op; a successful undo restores tiles and score, sets gameOver and won *)
(* to false and leaves bestScore and keepPlaying unchanged.                 *)
C10_UndoContract ==
    /\ [](variant = "deferred" /\ gameState.previousState = NoSnapshot =>
            timers = {} /\ ~isAnimating /\ spawnTimeout = NoTimer)
    /\ [][HandleUndo /\ gameState.previousState = NoSnapshot =>
            UNCHANGED <<DeferredFrame, log>>]_vars
    /\ [][HandleUndo \/ HandleNewGame => gameState'.previousState = NoSnapshot]_vars
    /\ [][HandleUndo /\ gameState.previousState # NoSnapshot =>
            gameState' = [tiles         |-> gameState.previousState.tiles,
                          score         |-> gameState.previousState.score,
                          bestScore     |-> gameState.bestScore,
                          gameOver      |-> FALSE,
                          won           |-> FALSE,
                          keepPlaying   |-> gameState.keepPlaying,
                          previousState |-> NoSnapshot]]_vars
    /\ [][SyncHandleUndo /\ syncState.previousState = NoGridSnapshot =>
            UNCHANGED <<SyncFrame, log>>]_vars
    /\ [][SyncHandleUndo \/ SyncHandleNewGame => syncState'.previousState = NoGridSnapshot]_vars
    /\ [][SyncHandleUndo /\ syncState.previousState # NoGridSnapshot =>
            syncState' = [grid          |-> syncState.previousState.grid,
                          score         |-> syncState.previousState.score,
                          bestScore     |-> syncState.bestScore,
                          gameOver      |-> FALSE,
                          won           |-> FALSE,
                          keepPlaying   |-> syncState.keepPlaying,
                          previousState |-> NoGridSnapshot]]_vars

C10_Witness ==
    /\ variant = "deferred"
    /\ lastOp = Refused("undo")
    /\ LastLogged = "undo"
    /\ gameState.previousState = NoSnapshot
    /\ gameState.score > 0

\* Abs(a - b) for cell coordinates
Dist(a, b) == IF a >= b THEN a - b ELSE b - a

\* no cell of the grid is empty and no two row- or column-adjacent cells are equal
Stuck(grid) ==
    /\ \A cell \in Cells : grid[cell[1]][cell[2]] # Null
    /\ \A a \in Cells, b \in Cells :
        Dist(a[1], b[1]) + Dist(a[2], b[2]) = 1 => grid[a[1]][a[2]] # grid[b[1]][b[2]]

(* C11: in every reachable state of either controller, also between a move  *)
(* and its spawn, gameOver is true iff the board has no empty cell and no   *)
(* two row- or column-adjacent tiles share a value.                         *)
C11_GameOverIffStuck ==
    /\ variant = "deferred" => (gameState.gameOver <=> Stuck(valueGrid(gameState.tiles)))
    /\ variant = "sync" => (syncState.gameOver <=> Stuck(syncState.grid))

C11_Witness ==
    /\ variant = "deferred"
    /\ lastOp = Took("spawn")
    /\ gameState.gameOver
    /\ Stuck(valueGrid(gameState.tiles))
    /\ gameState.previousState # NoSnapshot

\* the undos that took effect in the current game: the "undo" entries after the last "newGame"
RECURSIVE undosSince(_)
undosSince(i) ==
    IF i = 0 \/ log[i] = "newGame" THEN 0
    ELSE (IF log[i] = "undo" THEN 1 ELSE 0) + undosSince(i - 1)

UndosInGame == undosSince(Len(log))

Has2048Tile(tiles) == \E i \in 1..Len(tiles) : tiles[i].value = 2048
Has2048Cell(grid) == \E cell \in Cells : grid[cell[1]][cell[2]] = 2048

\* won goes from false to true in this step
DeferredWin == variant = "deferred" /\ ~gameState.won /\ gameState'.won
SyncWin == variant = "sync" /\ ~syncState.won /\ syncState'.won

\* won goes to true only at a spawn that leaves a 2048 tile on the board while
\* keepPlaying is false, and at every such spawn
WonOnlyAtWinningSpawn ==
    /\ [][DeferredWin =>
            /\ \E v \in timers : SpawnCallback(v)
            /\ lastOp' = Took("spawn")
            /\ Has2048Tile(gameState'.tiles)
            /\ ~gameState.keepPlaying /\ ~gameState'.keepPlaying]_vars
    /\ [][lastOp' = Took("spawn") /\ ~gameState.won /\ ~gameState.keepPlaying
            /\ Has2048Tile(gameState'.tiles) /\ (\E v \in timers : SpawnCallback(v))
            => gameState'.won]_vars
    /\ [][SyncWin =>
            /\ \E d \in Directions : SyncHandleMove(d)
            /\ lastOp' = Took("move")
            /\ Has2048Cell(syncState'.grid)
            /\ ~syncState.keepPlaying /\ ~syncState'.keepPlaying]_vars
    /\ [][variant = "sync" /\ lastOp' = Took("move") /\ ~syncState.won /\ ~syncState.keepPlaying
            /\ Has2048Cell(syncState'.grid) /\ (\E d \in Directions : SyncHandleMove(d))
            => syncState'.won]_vars

(* C12 as stated: within one game won goes from false to true at most once, *)
(* at the first spawn after which a 2048 tile is on the board, and only     *)
(* while keepPlaying is false.                                              *)
C12_WonAtMostOncePerGame == [](wins <= 1) /\ WonOnlyAtWinningSpawn

(* C12 amended: won goes from false to true only at a spawn after which a   *)
(* 2048 tile is on the board, only while keepPlaying is false, and at every *)
(* such spawn; within one game it does so at most once more than undos took *)
(* effect, because an undo clears won and takes the 2048 tile off the board *)
(* so that the win can be reached again.                                    *)
C12_WonOncePerUndo == [](wins <= 1 + UndosInGame) /\ WonOnlyAtWinningSpawn

C12_Witness ==
    /\ variant = "deferred"
    /\ wins = 2
    /\ gameState.won /\ ~gameState.keepPlaying
    /\ Has2048Tile(gameState.tiles)
    /\ UndosInGame = 1

(* C13: once keepPlaying() has been called, won is false in every later     *)
(* state of that game, whatever moves, spawns and undos follow and whatever *)
(* 2048 tiles appear; keepPlaying() sets keepPlaying, and only newGame      *)
(* resets it to false.                                                      *)
C13_KeepPlayingSuppressesWon ==
    /\ [](variant = "deferred" /\ gameState.keepPlaying => ~gameState.won)
    /\ [](variant = "sync" /\ syncState.keepPlaying => ~syncState.won)
    /\ [][HandleKeepPlaying => gameState'.keepPlaying /\ ~gameState'.won]_vars
    /\ [][SyncHandleKeepPlaying => syncState'.keepPlaying /\ ~syncState'.won]_vars
    /\ [][variant = "deferred" /\ gameState.keepPlaying /\ ~gameState'.keepPlaying
            => HandleNewGame]_vars
    /\ [][variant = "sync" /\ syncState.keepPlaying /\ ~syncState'.keepPlaying
            => SyncHandleNewGame]_vars

C13_Witness ==
    /\ variant = "deferred"
    /\ gameState.keepPlaying /\ ~gameState.won
    /\ lastOp = Took("spawn")
    /\ Has2048Tile(gameState.tiles)
    /\ wins = 0

(* C14 as stated: keepPlaying() takes effect only from the Won state (won   *)
(* true, keepPlaying false), where it clears won and sets keepPlaying; in   *)
(* any other state (playing without a win, game over, already keep-playing) *)
(* it leaves the session state unchanged.                                   *)
C14_KeepPlayingOnlyFromWon ==
    /\ [][HandleKeepPlaying =>
            IF gameState.won /\ ~gameState.keepPlaying
            THEN gameState' = [gameState EXCEPT !.won = FALSE, !.keepPlaying = TRUE]
            ELSE gameState' = gameState]_vars
    /\ [][SyncHandleKeepPlaying =>
            IF syncState.won /\ ~syncState.keepPlaying
            THEN syncState' = [syncState EXCEPT !.won = FALSE, !.keepPlaying = TRUE]
            ELSE syncState' = syncState]_vars

\* keepPlaying() was delivered in a game that never reached 2048, and keepPlaying is set
C14_Witness ==
    /\ variant = "deferred"
    /\ lastOp = Took("keepPlaying")
    /\ gameState.keepPlaying
    /\ wins = 0
    /\ ~Has2048Tile(gameState.tiles)
    /\ log = <<>>

(* C15: newGame() from any state, also game over, won or with a spawn       *)
(* pending, yields a board of exactly 2 tiles on two distinct cells, each   *)
(* of value 2 or 4, with score 0, won, gameOver and keepPlaying false,      *)
(* previousState absent and bestScore unchanged; in the deferred controller *)
(* no spawn is pending afterwards.                                          *)
C15_NewGameResets ==
    /\ [][HandleNewGame =>
            LET t == gameState'.tiles
            IN  /\ Len(t) = 2
                /\ <<t[1].row, t[1].col>> # <<t[2].row, t[2].col>>
                /\ \A i \in 1..2 : t[i].value \in {2, 4} /\ t[i].row \in Idx /\ t[i].col \in Idx
                /\ gameState'.score = 0
                /\ ~gameState'.won /\ ~gameState'.gameOver /\ ~gameState'.keepPlaying
                /\ gameState'.previousState = NoSnapshot
                /\ gameState'.bestScore = gameState.bestScore
                /\ savedBest' = savedBest
                /\ timers' = {} /\ ~isAnimating']_vars
    /\ [][SyncHandleNewGame =>
            LET g == syncState'.grid
            IN  /\ Cardinality({cell \in Cells : g[cell[1]][cell[2]] # Null}) = 2
                /\ \A cell \in Cells : g[cell[1]][cell[2]] \in {Null, 2, 4}
                /\ syncState'.score = 0
                /\ ~syncState'.won /\ ~syncState'.gameOver /\ ~syncState'.keepPlaying
                /\ syncState'.previousState = NoGridSnapshot
                /\ syncState'.bestScore = syncState.bestScore
                /\ savedBest' = savedBest]_vars

\* a new game started while the spawn of a merging move was pending
C15_Witness ==
    /\ variant = "deferred"
    /\ lastOp = Took("newGame")
    /\ log = <<"move", "newGame">>
    /\ cancelled # {}
    /\ Len(gameState.tiles) = 2
    /\ gameState.score = 0 /\ gameState.bestScore = 20480

\* the score of the mounted controller's session
Score == IF variant = "deferred" THEN gameState.score ELSE syncState.score

(* C16 as stated: within a game (between two newGame calls) no command      *)
(* makes the score smaller than it was in the preceding state.              *)
C16_ScoreNeverDecreases ==
    [][~(HandleNewGame \/ SyncHandleNewGame) => Score' >= Score]_vars

(* C16 amended: within a game no move, spawn or keepPlaying makes the score *)
(* smaller; an undo that takes effect sets the score to the snapshot's      *)
(* score, which is never larger than the current score and is smaller       *)
(* whenever the undone move merged tiles.                                   *)
C16_ScoreDecreasesOnlyByUndo ==
    /\ [][~(HandleNewGame \/ SyncHandleNewGame \/ HandleUndo \/ SyncHandleUndo)
            => Score' >= Score]_vars
    /\ [][HandleUndo /\ gameState.previousState # NoSnapshot =>
            gameState'.score = gameState.previousState.score /\ gameState'.score <= gameState.score]_vars
    /\ [][SyncHandleUndo /\ syncState.previousState # NoGridSnapshot =>
            syncState'.score = syncState.previousState.score /\ syncState'.score <= syncState.score]_vars
    /\ [][HandleUndo /\ gameState.previousState = NoSnapshot => Score' = Score]_vars
    /\ [][SyncHandleUndo /\ syncState.previousState = NoGridSnapshot => Score' = Score]_vars

\* the move that merged the two 1024 tiles (score 18432 + 2048) was undone
C16_Witness ==
    /\ variant = "deferred"
    /\ lastOp = Took("undo")
    /\ log = <<"move", "spawn", "undo">>
    /\ gameState.score = 18432
    /\ gameState.bestScore = 20480

\* the bestScore of the mounted controller's session
Best == IF variant = "deferred" THEN gameState.bestScore ELSE syncState.bestScore

\* this step is a move that was accepted
AcceptedMove ==
    /\ lastOp' = Took("move")
    /\ log' = Append(log, "move")
    /\ (\E d \in Directions : HandleMove(d)) \/ (\E d \in Directions : SyncHandleMove(d))

(* C17: bestScore never decreases under any command, across games; an       *)
(* accepted move sets it to the larger of bestScore and the score after the *)
(* move, and every other step (undo, newGame, keepPlaying, rejected move,   *)
(* spawn callback) leaves it unchanged; bestScore >= score in every         *)
(* reachable state; the stored value changes only when bestScore strictly   *)
(* increases, and then to the new bestScore.                                *)
C17_BestScoreMonotonic ==
    /\ [](Best >= Score)
    /\ [][Best' >= Best]_vars
    /\ [][AcceptedMove => Best' = (IF Score' > Best THEN Score' ELSE Best)]_vars
    /\ [][~AcceptedMove => Best' = Best]_vars
    /\ [][savedBest' # savedBest => Best' > Best /\ savedBest' = Best']_vars
    /\ [][Best' > Best => savedBest' = Best']_vars

\* a move raised the best score above the one the session started with, and it was stored
C17_Witness ==
    /\ variant = "deferred"
    /\ lastOp = Took("move")
    /\ gameState.score = 20480
    /\ gameState.bestScore = 20480
    /\ savedBest = 20480
    /\ gameState.previousState.score = 18432

\* while a spawn is pending a move changes nothing and schedules nothing, and at most one
\* spawn is pending
MovesWaitForSpawn ==
    /\ [](Cardinality(timers) <= 1)
    /\ [](variant = "deferred" => (timers # {} <=> isAnimating))
    /\ [](timers # {} => timers = {spawnTimeout} /\ spawnTimeout = moveVersion)
    /\ [][\A d \in Directions : timers # {} /\ lastOp'.name = "move" /\ HandleMove(d) =>
            UNCHANGED <<gameState, isAnimating, spawnTimeout, timers, moveVersion,
                        nextTileId, savedBest, rng, log, cancelled>>]_vars

(* C18 as stated, of the deferred controller: while a spawn is pending      *)
(* every move is rejected without changing tiles, score, bestScore or       *)
(* previousState and without scheduling another spawn; at most one spawn is *)
(* pending at any time; and two moves are never resolved without a spawn    *)
(* between them.                                                            *)
C18_SpawnBetweenMoves ==
    /\ MovesWaitForSpawn
    /\ [](variant = "deferred" => \A i \in 1..Len(log), j \in 1..Len(log) :
            i < j /\ log[i] = "move" /\ log[j] = "move"
                => \E k \in (i + 1)..(j - 1) : log[k] = "spawn")

(* C18 amended: while a spawn is pending every move is rejected without     *)
(* changing anything and without scheduling another spawn; at most one      *)
(* spawn is pending at any time; and between two resolved moves there is a  *)
(* spawn, or an undo or newGame that cancelled the first move's spawn.      *)
C18_SpawnOrResetBetweenMoves ==
    /\ MovesWaitForSpawn
    /\ [](variant = "deferred" => \A i \in 1..Len(log), j \in 1..Len(log) :
            i < j /\ log[i] = "move" /\ log[j] = "move"
                => \E k \in (i + 1)..(j - 1) : log[k] \in {"spawn", "undo", "newGame"})

\* a move that the board would allow was rejected because a spawn is pending
C18_Witness ==
    /\ variant = "deferred"
    /\ lastOp = Refused("move")
    /\ isAnimating /\ timers # {}
    /\ ~gameState.gameOver /\ ~gameState.won
    /\ \A d \in Directions : move(gameState.tiles, d, nextTileId).moved

(* C19, of the deferred controller: an undo or newGame issued while a spawn *)
(* is pending invalidates it: the pending callback is no longer due and its *)
(* captured version is below the current version from then on; if it is run *)
(* afterwards, in any interleaving with later moves, undos and new games,   *)
(* it changes nothing: no tile is added, gameOver and won are not           *)
(* recomputed and the animating guard is not touched.                       *)
C19_CancelledSpawnIsNoOp ==
    /\ [](\A v \in cancelled : v < moveVersion /\ v \notin timers)
    /\ [][HandleUndo \/ HandleNewGame =>
            /\ timers' = {} /\ spawnTimeout' = NoTimer /\ ~isAnimating'
            /\ timers \subseteq cancelled'
            /\ moveVersion' > moveVersion]_vars
    /\ [][\A v \in cancelled : StaleCallback(v) =>
            UNCHANGED <<gameState, isAnimating, spawnTimeout, timers, moveVersion,
                        nextTileId, savedBest, rng, log, wins>>]_vars

\* the callback of an undone move ran while the spawn of a later move was pending
C19_Witness ==
    /\ variant = "deferred"
    /\ lastOp = Refused("spawn")
    /\ log = <<"move", "undo", "move">>
    /\ isAnimating /\ timers = {3}
    /\ cancelled = {}

\* the values of a Tile[] cell by cell
BoardOf(tiles) ==
    [r \in Idx |-> [c \in Idx |->
        IF \E i \in 1..Len(tiles) : tiles[i].row = r /\ tiles[i].col = c
        THEN tiles[CHOOSE i \in 1..Len(tiles) : tiles[i].row = r /\ tiles[i].col = c].value
        ELSE Null]]

\* the deferred session and the synchronous session hold the same state
SameSession(deferred, sync) ==
    /\ BoardOf(deferred.tiles) = sync.grid
    /\ deferred.score = sync.score
    /\ deferred.bestScore = sync.bestScore
    /\ deferred.gameOver = sync.gameOver
    /\ deferred.won = sync.won
    /\ deferred.keepPlaying = sync.keepPlaying
    /\ (deferred.previousState = NoSnapshot) = (sync.previousState = NoGridSnapshot)
    /\ deferred.previousState # NoSnapshot =>
        /\ BoardOf(deferred.previousState.tiles) = sync.previousState.grid
        /\ deferred.previousState.score = sync.previousState.score

(* C20: the deferred controller refines the synchronous controller: under   *)
(* the same commands (every move outside a suspension window, every undo,   *)
(* newGame and keepPlaying, also inside a window) and the same spawn        *)
(* draws, whenever no spawn is pending the deferred session's tile values   *)
(* by cell, score, bestScore, gameOver, won, keepPlaying and previousState  *)
(* equal those of the synchronous session.                                  *)
C20_DeferredRefinesSync ==
    variant = "deferred" /\ timers = {} => SameSession(gameState, shadow)

\* settled after an undo issued inside the suspension window of a second move
C20_Witness ==
    /\ variant = "deferred"
    /\ log = <<"move", "spawn", "move", "undo">>
    /\ lastOp = Took("undo")
    /\ cancelled # {}
    /\ timers = {}
    /\ shadow.previousState = NoGridSnapshot
    /\ shadow.score = gameState.score

\* the ids of a Tile[]
IdsOf(tiles) == {tiles[i].id : i \in 1..Len(tiles)}

\* no two tiles of a Tile[] share an id
DistinctIds(tiles) == \A i, j \in 1..Len(tiles) : i # j => tiles[i].id # tiles[j].id

\* new is what one move call makes of old with the allocator at nid: a tile that was not
\* made by a merge is an old tile with its id and value, a tile made by a merge has an id
\* the allocator had not handed out, and each merge takes two old ids off the board
MoveKeepsIds(old, new, nid) ==
    /\ \A k \in 1..Len(new) :
        IF new[k].isMerged
        THEN new[k].id >= nid /\ new[k].id \notin IdsOf(old)
        ELSE \E i \in 1..Len(old) : old[i].id = new[k].id /\ old[i].value = new[k].value
    /\ Cardinality(IdsOf(old) \ IdsOf(new)) = 2 * Cardinality(MergedTiles(new))
    /\ DistinctIds(new)

(* C21: in every reachable state of the tile-identity controller the live   *)
(* tiles, and the tiles kept for undo, have pairwise distinct ids below the *)
(* allocator; a move keeps the id of every tile it does not merge and gives *)
(* each merged tile an id no live tile has, both source ids disappearing; a *)
(* spawn gives its tile the allocator's next id and keeps the others; undo  *)
(* restores the snapshot's tiles; newGame restarts the ids at 1.            *)
C21_LiveIdsDistinct ==
    /\ [](variant = "deferred" =>
            /\ DistinctIds(gameState.tiles)
            /\ \A id \in IdsOf(gameState.tiles) : 1 <= id /\ id < nextTileId
            /\ gameState.previousState # NoSnapshot =>
                /\ DistinctIds(gameState.previousState.tiles)
                /\ \A id \in IdsOf(gameState.previousState.tiles) : 1 <= id /\ id < nextTileId)
    /\ [][\A d \in Directions : lastOp' = Took("move") /\ HandleMove(d) =>
            MoveKeepsIds(gameState.tiles, gameState'.tiles, nextTileId)]_vars
    /\ [][\A v \in timers : lastOp' = Took("spawn") /\ SpawnCallback(v) =>
            LET old == gameState.tiles
                new == gameState'.tiles
            IN  /\ Len(new) = Len(old) + 1
                /\ new[Len(new)].id = nextTileId
                /\ nextTileId' = nextTileId + 1
                /\ \A i \in 1..Len(old) : new[i].id = old[i].id]_vars
    /\ [][HandleUndo /\ lastOp' = Took("undo") =>
            /\ gameState'.tiles = gameState.previousState.tiles
            /\ nextTileId' = nextTileId]_vars
    /\ [][HandleNewGame =>
            /\ nextTileId' = 3
            /\ IdsOf(gameState'.tiles) = {1, 2}
            /\ Len(gameState'.tiles) = 2]_vars

\* the merge of an undone move was made again: its tile has a later id than the first one
C21_Witness ==
    /\ variant = "deferred"
    /\ log = <<"move", "spawn", "undo", "move">>
    /\ lastOp = Took("move")
    /\ \E i \in 1..Len(gameState.tiles) : gameState.tiles[i].isMerged /\ gameState.tiles[i].id = 6
    /\ DistinctIds(gameState.tiles)

\* some direction moves the board
SomeMoveOf(tiles) == \E d \in Directions : move(tiles, d, nextTileId).moved
SomeMoveOfGrid(grid) == \E d \in Directions : moveGrid(grid, d).moved

\* the value Math.random() returned k calls ago
drawn(k) == random(rng, Len(RandomStreams[rng.stream]) - k)

(* C22: in every reachable state of either controller in which gameOver is *)
(* true, and in every one in which won is true, previousState is present;   *)
(* an undo delivered in the GameOver state takes effect and leaves a state  *)
(* with gameOver and won false whose board is the snapshot's and has at     *)
(* least one legal move.                                                    *)
C22_UndoLeavesGameOver ==
    /\ [](variant = "deferred" /\ (gameState.gameOver \/ gameState.won) =>
            gameState.previousState # NoSnapshot)
    /\ [](variant = "sync" /\ (syncState.gameOver \/ syncState.won) =>
            syncState.previousState # NoGridSnapshot)
    /\ [][gameState.gameOver /\ HandleUndo =>
            /\ lastOp' = Took("undo")
            /\ ~gameState'.gameOver /\ ~gameState'.won
            /\ gameState'.tiles = gameState.previousState.tiles
            /\ canMove(gameState'.tiles)
            /\ SomeMoveOf(gameState'.tiles)]_vars
    /\ [][syncState.gameOver /\ SyncHandleUndo =>
            /\ lastOp' = Took("undo")
            /\ ~syncState'.gameOver /\ ~syncState'.won
            /\ syncState'.grid = syncState.previousState.grid
            /\ canMoveGrid(syncState'.grid)
            /\ SomeMoveOfGrid(syncState'.grid)]_vars

\* an undo took the session out of GameOver: the move it undid, with the tile the last two
\* draws spawned, leaves a board without a legal move
C22_Witness ==
    /\ variant = "deferred"
    /\ lastOp = Took("undo")
    /\ log = <<"move", "spawn", "undo">>
    /\ ~gameState.gameOver /\ ~gameState.won
    /\ SomeMoveOf(gameState.tiles)
    /\ \E d \in Directions :
        LET result == move(gameState.tiles, d, nextTileId)
        IN  /\ result.moved
            /\ ~canMove(spawnTile(result.tiles, result.nextTileId, drawn(2), drawn(1)).tiles)

(* C23, of the deferred controller with timers that fire: while the guard   *)
(* is set the callback of the current version is scheduled, and it leaves   *)
(* the queue uncleared exactly when it is run; the guard is                 *)
(* always released again, and only by the spawn being applied or by an undo *)
(* or newGame taking effect; every accepted move is followed by its spawn   *)
(* or by an undo or newGame; and in no state with the guard released is an  *)
(* accepted move the last thing that took effect.                           *)
C23_GuardAlwaysReleased ==
    /\ [](variant = "deferred" /\ isAnimating =>
            timers = {moveVersion} /\ spawnTimeout = moveVersion)
    /\ [][TimerRuns <=> TimerFires]_vars
    /\ (isAnimating ~> ~isAnimating)
    /\ (variant = "deferred" /\ LastLogged = "move"
            ~> LastLogged \in {"spawn", "undo", "newGame"})
    /\ [][isAnimating /\ ~isAnimating' =>
            /\ lastOp' \in {Took("spawn"), Took("undo"), Took("newGame")}
            /\ log' = Append(log, lastOp'.name)
            /\ timers' = {}]_vars
    /\ [](variant = "deferred" /\ ~isAnimating => LastLogged # "move" /\ timers = {})

\* two moves, each settled by its own spawn
C23_Witness ==
    /\ variant = "deferred"
    /\ log = <<"move", "spawn", "move", "spawn">>
    /\ lastOp = Took("spawn")
    /\ ~isAnimating /\ timers = {}
    /\ moveVersion = 2

\* the sum of the values of a Tile[] and of a Grid
TileSum(tiles) == sumValues(tiles, 1..Len(tiles))
CellSum(grid) == LET Value(v) == v IN GridSum(grid, Value)

\* the draws Math.random() can return, in hundredths, as far as spawnTile tells them apart
Draws == {0, 50, 89, 90, 99}

\* res is what the tile-identity move makes of old: same sum of values, one tile fewer per
\* merge, and if anything moved a cell is empty, so that every spawn adds one tile
MovePreserves(old, res) ==
    /\ TileSum(res.tiles) = TileSum(old)
    /\ Len(res.tiles) = Len(old) - Cardinality(MergedTiles(res.tiles))
    /\ res.moved =>
        /\ Len(getEmptyCells(res.tiles)) > 0
        /\ drawsOfSpawn(res.tiles) = 2
        /\ \A rCell \in Draws, rValue \in Draws :
            Len(spawnTile(res.tiles, res.nextTileId, rCell, rValue).tiles) = Len(res.tiles) + 1

\* the same of the grid-indexed move
MovePreservesGrid(old, res) ==
    /\ CellSum(res.grid) = CellSum(old)
    /\ TileCount(res.grid) <= TileCount(old)
    /\ (TileCount(res.grid) < TileCount(old)) <=> res.merged
    /\ res.moved =>
        /\ Len(getEmptyCellsGrid(res.grid)) > 0
        /\ drawsOfSpawnGrid(res.grid) = 2
        /\ \A rCell \in Draws, rValue \in Draws :
            TileCount(spawnTileGrid(res.grid, rCell, rValue)) = TileCount(res.grid) + 1

(* C24: for every input board and direction, and for every board a          *)
(* controller moves, move keeps the sum of the tile values and returns as   *)
(* many tiles as it was given minus the merges it made; when it reports     *)
(* moved = true the result has an empty cell, so a spawn on it adds exactly *)
(* one tile; in both controllers every board on which a spawn is pending    *)
(* has an empty cell and every spawn adds exactly one tile, taking two      *)
(* draws.                                                                   *)
C24_MoveLeavesRoomForSpawn ==
    /\ [](pc \in {"moved", "again"} =>
            /\ MovePreserves(inTiles, tileRes)
            /\ MovePreservesGrid(inGrid, gridRes)
            /\ TileCount(gridRes.grid) = Len(tileRes.tiles))
    /\ [](pc = "again" =>
            /\ MovePreserves(tileRes.tiles, tileRes2)
            /\ MovePreservesGrid(gridRes.grid, gridRes2))
    /\ [](variant = "deferred" /\ isAnimating => Len(getEmptyCells(gameState.tiles)) > 0)
    /\ [][\A d \in Directions : lastOp' = Took("move") /\ HandleMove(d) =>
            /\ MovePreserves(gameState.tiles, move(gameState.tiles, d, nextTileId))
            /\ gameState'.tiles = move(gameState.tiles, d, nextTileId).tiles]_vars
    /\ [][\A v \in timers : lastOp' = Took("spawn") /\ SpawnCallback(v) =>
            /\ Len(gameState'.tiles) = Len(gameState.tiles) + 1
            /\ rng' = advance(rng, 2)]_vars
    /\ [][\A d \in Directions : lastOp' = Took("move") /\ SyncHandleMove(d) =>
            /\ MovePreservesGrid(syncState.grid, moveGrid(syncState.grid, d))
            /\ TileCount(syncState'.grid) = TileCount(moveGrid(syncState.grid, d).grid) + 1
            /\ rng' = advance(rng, 2)]_vars

\* a full board was moved by one merge and the spawn filled the cell the merge freed
C24_Witness ==
    /\ variant = "deferred"
    /\ lastOp = Took("spawn")
    /\ Len(gameState.previousState.tiles) = 16
    /\ Len(gameState.tiles) = 16
    /\ TileSum(gameState.tiles) \in {TileSum(gameState.previousState.tiles) + 2,
                                     TileSum(gameState.previousState.tiles) + 4}

(* C25: in no reachable state of either controller are won and keepPlaying  *)
(* both true; a move is accepted only in a state where won is false, and    *)
(* won stays false while its spawn is pending; so the spawn step never      *)
(* finds won true, and won goes from true to false only by undo, newGame or *)
(* keepPlaying, never by a move or a spawn.                                 *)
C25_SpawnNeverClearsWin ==
    /\ [](variant = "deferred" => ~(gameState.won /\ gameState.keepPlaying))
    /\ [](variant = "sync" => ~(syncState.won /\ syncState.keepPlaying))
    /\ [][\A d \in Directions : lastOp' = Took("move") /\ HandleMove(d) =>
            ~gameState.won /\ ~gameState'.won]_vars
    /\ [][\A d \in Directions : lastOp' = Took("move") /\ SyncHandleMove(d) =>
            ~syncState.won]_vars
    /\ [](variant = "deferred" /\ isAnimating => ~gameState.won)
    /\ [][\A v \in timers : lastOp' = Took("spawn") /\ SpawnCallback(v) =>
            /\ ~gameState.won
            /\ gameState'.won = (~gameState.keepPlaying /\ hasWon(gameState'.tiles))]_vars
    /\ [][variant = "deferred" /\ gameState.won /\ ~gameState'.won =>
            HandleUndo \/ HandleNewGame \/ HandleKeepPlaying]_vars
    /\ [][variant = "sync" /\ syncState.won /\ ~syncState'.won =>
            SyncHandleUndo \/ SyncHandleNewGame \/ SyncHandleKeepPlaying]_vars

\* the win is displayed: set by the spawn of the first move, with keepPlaying false
C25_Witness ==
    /\ variant = "deferred"
    /\ lastOp = Took("spawn")
    /\ log = <<"move", "spawn">>
    /\ gameState.won /\ ~gameState.keepPlaying
    /\ hasWon(gameState.tiles)
    /\ ~isAnimating

NewTiles(tiles) == LET N(t) == t.isNew IN TilesWhere(tiles, N)

\* new is what one move call makes of old: no tile is flagged new, and the tiles flagged
\* merged are those the call created
MoveFlags(old, new) ==
    /\ NewTiles(new) = {}
    /\ \A k \in 1..Len(new) : new[k].isMerged <=> new[k].id \notin IdsOf(old)
    /\ Cardinality(MergedTiles(new)) = Len(old) - Len(new)

\* spawned is what spawnTile makes of old: on a board with an empty cell the appended tile
\* alone is flagged new and no tile is flagged merged; a full board comes back as it was
SpawnFlags(old, spawned) ==
    IF Len(old) < 16
    THEN /\ Len(spawned) = Len(old) + 1
         /\ NewTiles(spawned) = {Len(spawned)}
         /\ MergedTiles(spawned) = {}
         /\ <<spawned[Len(spawned)].row, spawned[Len(spawned)].col>> \notin CellsOf(old)
    ELSE spawned = old

\* tiles with both flags set on the tiles at the indices of S
Flagged(tiles, S) ==
    [i \in 1..Len(tiles) |->
        IF i \in S THEN [tiles[i] EXCEPT !.isNew = TRUE, !.isMerged = TRUE] ELSE tiles[i]]

\* every spawn on tiles, whatever flags they carry, sets the flags as SpawnFlags says
SpawnSetsFlags(tiles, nid) ==
    \A rCell \in Draws, rValue \in {0, 99}, S \in {{}, {1}, 1..Len(tiles)} :
        SpawnFlags(Flagged(tiles, S), spawnTile(Flagged(tiles, S), nid, rCell, rValue).tiles)

(* C26: the isNew and isMerged flags tell of the last engine call only:     *)
(* after a move no tile is flagged new and exactly the tiles that call      *)
(* created by a merge are flagged merged, whatever flags the input carried  *)
(* (a second move, a move after a spawn); after spawnTile on a board with   *)
(* an empty cell exactly the new tile is flagged new and none is flagged    *)
(* merged; spawnTile on a full board returns its input unchanged, flags     *)
(* included.                                                                *)
C26_FlagsOfLastStep ==
    /\ [](pc = "input" => SpawnSetsFlags(inTiles, Len(inTiles) + 1))
    /\ [](pc \in {"moved", "again"} =>
            /\ MoveFlags(inTiles, tileRes.tiles)
            /\ SpawnSetsFlags(tileRes.tiles, tileRes.nextTileId))
    /\ [](pc = "again" => MoveFlags(tileRes.tiles, tileRes2.tiles))
    /\ [][\A d \in Directions : lastOp' = Took("move") /\ HandleMove(d) =>
            MoveFlags(gameState.tiles, gameState'.tiles)]_vars
    /\ [][\A v \in timers : lastOp' = Took("spawn") /\ SpawnCallback(v) =>
            SpawnFlags(gameState.tiles, gameState'.tiles)]_vars
    /\ [][HandleNewGame => NewTiles(gameState'.tiles) = {2} /\ MergedTiles(gameState'.tiles) = {}]_vars

\* a tile the first move created by a merge went through the second move, which made a
\* merge of its own, and is no longer flagged
C26_Witness ==
    /\ pc = "again"
    /\ MergedTiles(tileRes2.tiles) # {}
    /\ \E i \in MergedTiles(tileRes.tiles), k \in 1..Len(tileRes2.tiles) :
        /\ tileRes2.tiles[k].id = tileRes.tiles[i].id
        /\ ~tileRes2.tiles[k].isMerged


=============================================================================
